---- MODULE Spec2Model ----
(***************************************************************************)
(* MaxSim scoring of maxsim-web: the pure JavaScript kernels               *)
(* (MaxSimBaseline, MaxSimOptimized), the MaxSimWasm wrapper with its      *)
(* flat-buffer layout, and the preloaded-corpus mode of the WASM scorer.   *)
(*                                                                         *)
(* Numbers: embedding components are small integers, so every product and  *)
(* sum of the kernels is exact; a returned score is a rational <<n, d>> in *)
(* lowest terms, because maxsim_normalized divides by the query length.    *)
(* Only the kernels on a repeated query are computed in rounded doubles.   *)
(***************************************************************************)
EXTENDS Integers, Sequences, FiniteSets, TLC

\* ------------------------------------------------------------------ bounds
\* Most tokens in a query or a document of the single-pair inputs.
MaxTokens == 2
\* Most documents in a batch.
MaxDocs == 2
\* Token counts of the blocked kernel's inputs: every count up to
\* MaxBlockTokens, and one query and one document longer than a block.
MaxBlockTokens == 3
LongQueryTokens == 9
LongDocTokens == 17
\* Largest vector length of the dot-product comparison: two unrolled
\* iterations and a remainder.
MaxDim == 9
\* Most messages one MaxSimWasmThreaded wrapper sends to its worker.
MaxMessages == 3

\* Component values and dimensions of the enumerated embedding vectors.
Vals == {-1, 1}
Dims == {1, 2}

\* ------------------------------------------------------------ number model
Abs(x) == IF x < 0 THEN -x ELSE x

RECURSIVE GCD(_, _)
GCD(a, b) == IF b = 0 THEN a ELSE GCD(b, a % b)

\* The JavaScript quotient a / b of two exact numbers, b > 0, in lowest terms.
Quot(a, b) ==
  LET g == GCD(Abs(a), b)
  IN  <<a \div g, b \div g>>

\* A whole number as a score.
Num(a) == <<a, 1>>

\* -Infinity of the running maximum: below every dot product of the
\* enumerated vectors (|a.b| <= dimension, components being -1 or 1).
NegInf == -1000

\* Math.max of two numbers.
MathMax(a, b) == IF a >= b THEN a ELSE b

\* ------------------------------------------------------------------ inputs
\* Sequences over S of length at most n.
SeqUpTo(S, n) == UNION {[1..k -> S] : k \in 0..n}

\* Token sequences of the single-pair inputs: at most MaxTokens vectors of
\* one dimension d (the query's and the document's dimensions may differ).
Embeddings(d) == SeqUpTo([1..d -> Vals], MaxTokens)

\* Queries and documents of the batch inputs, all of dimension 2: empty, one
\* token and two tokens, with dot products of both signs and zero.
BatchQueries ==
  { << >>, << <<1, 1>> >>, << <<1, 1>>, <<1, -1>> >>, << <<-1, -1>>, <<1, 1>> >> }
BatchDocs ==
  { << >>, << <<1, 1>> >>, << <<-1, -1>> >>, << <<1, 1>>, <<-1, -1>> >>,
    << <<-1, -1>>, <<1, -1>> >>, << <<-1, -1>>, <<-1, -1>> >> }

\* ------------------------------------------------------- MaxSimBaseline
\* dotProduct: 0 when the lengths differ, else the running sum over i.
RECURSIVE Baseline_dotLoop(_, _, _, _)
Baseline_dotLoop(vec1, vec2, i, result) ==
  IF i > Len(vec1) THEN result
  ELSE Baseline_dotLoop(vec1, vec2, i + 1, result + vec1[i] * vec2[i])

Baseline_dotProduct(vec1, vec2) ==
  IF Len(vec1) # Len(vec2) THEN 0
  ELSE Baseline_dotLoop(vec1, vec2, 1, 0)

\* Inner loop of _maxsimImpl: the running maximum over the document tokens.
RECURSIVE Baseline_maxLoop(_, _, _, _)
Baseline_maxLoop(queryToken, docEmbedding, j, maxSim) ==
  IF j > Len(docEmbedding) THEN maxSim
  ELSE Baseline_maxLoop(queryToken, docEmbedding, j + 1,
         MathMax(maxSim, Baseline_dotProduct(queryToken, docEmbedding[j])))

\* Outer loop of _maxsimImpl: the sum of the per-token maxima.
RECURSIVE Baseline_sumLoop(_, _, _, _)
RECURSIVE Baseline_sumLoop_maxFromZero(_, _, _, _)
\* Mutant: the running maximum starts at 0 instead of -Infinity.
Baseline_sumLoop_maxFromZero(queryEmbedding, docEmbedding, i, sumMaxSim) ==
  IF i > Len(queryEmbedding) THEN sumMaxSim
  ELSE Baseline_sumLoop_maxFromZero(queryEmbedding, docEmbedding, i + 1,
         sumMaxSim + Baseline_maxLoop(queryEmbedding[i], docEmbedding, 1, 0))

Baseline_sumLoop(queryEmbedding, docEmbedding, i, sumMaxSim) ==
  IF i > Len(queryEmbedding) THEN sumMaxSim
  ELSE Baseline_sumLoop(queryEmbedding, docEmbedding, i + 1,
         sumMaxSim + Baseline_maxLoop(queryEmbedding[i], docEmbedding, 1, NegInf))

\* Mutant: the normalized score divides by the document length.
Baseline_maxsimImpl_divByDoc(queryEmbedding, docEmbedding, normalized) ==
  IF Len(queryEmbedding) = 0 \/ Len(docEmbedding) = 0 THEN Num(0)
  ELSE LET sumMaxSim == Baseline_sumLoop(queryEmbedding, docEmbedding, 1, 0)
       IN  IF normalized THEN Quot(sumMaxSim, Len(docEmbedding))
           ELSE Num(sumMaxSim)

\* Mutant: only the query is checked for emptiness.
Baseline_maxsimImpl_queryCheckOnly(queryEmbedding, docEmbedding, normalized) ==
  IF Len(queryEmbedding) = 0 THEN Num(0)
  ELSE LET sumMaxSim == Baseline_sumLoop(queryEmbedding, docEmbedding, 1, 0)
       IN  IF normalized THEN Quot(sumMaxSim, Len(queryEmbedding))
           ELSE Num(sumMaxSim)

Baseline_maxsimImpl(queryEmbedding, docEmbedding, normalized) ==
  IF Len(queryEmbedding) = 0 \/ Len(docEmbedding) = 0 THEN Num(0)
  ELSE LET sumMaxSim == Baseline_sumLoop(queryEmbedding, docEmbedding, 1, 0)
       IN  IF normalized THEN Quot(sumMaxSim, Len(queryEmbedding))
           ELSE Num(sumMaxSim)

Baseline_maxsim(queryEmbedding, docEmbedding) ==
  Baseline_maxsimImpl(queryEmbedding, docEmbedding, FALSE)

Baseline_maxsim_normalized(queryEmbedding, docEmbedding) ==
  Baseline_maxsimImpl(queryEmbedding, docEmbedding, TRUE)

\* maxsimBatch: scores[i] = maxsim(query, docEmbeddings[i]) for i ascending.
RECURSIVE Baseline_batchLoop(_, _, _, _, _)
RECURSIVE Baseline_batchLoop_reversed(_, _, _, _, _)
\* Mutant: the score of document i is stored at the mirrored index.
Baseline_batchLoop_reversed(queryEmbedding, docEmbeddings, normalized, i, scores) ==
  IF i > Len(docEmbeddings) THEN scores
  ELSE Baseline_batchLoop_reversed(queryEmbedding, docEmbeddings, normalized, i + 1,
         [scores EXCEPT ![Len(docEmbeddings) + 1 - i] =
            IF normalized
            THEN Baseline_maxsim_normalized(queryEmbedding, docEmbeddings[i])
            ELSE Baseline_maxsim(queryEmbedding, docEmbeddings[i])])

Baseline_batchLoop(queryEmbedding, docEmbeddings, normalized, i, scores) ==
  IF i > Len(docEmbeddings) THEN scores
  ELSE Baseline_batchLoop(queryEmbedding, docEmbeddings, normalized, i + 1,
         [scores EXCEPT ![i] =
            IF normalized
            THEN Baseline_maxsim_normalized(queryEmbedding, docEmbeddings[i])
            ELSE Baseline_maxsim(queryEmbedding, docEmbeddings[i])])

\* new Array(n): n empty slots, written << >> until assigned.
NewArray(n) == [i \in 1..n |-> << >>]

Baseline_maxsimBatch(queryEmbedding, docEmbeddings) ==
  Baseline_batchLoop(queryEmbedding, docEmbeddings, FALSE, 1,
                     NewArray(Len(docEmbeddings)))

Baseline_maxsimBatch_normalized(queryEmbedding, docEmbeddings) ==
  Baseline_batchLoop(queryEmbedding, docEmbeddings, TRUE, 1,
                     NewArray(Len(docEmbeddings)))

\* ------------------------------------------------------ MaxSimOptimized
\* dotProduct: plain loop below 4 dimensions, else 4-way unrolled main loop
\* over the largest multiple of 4 and a scalar loop over the remainder.
RECURSIVE Optimized_unrolledLoop(_, _, _, _, _)
Optimized_unrolledLoop(vec1, vec2, j, length, result) ==
  IF j > length THEN result
  ELSE Optimized_unrolledLoop(vec1, vec2, j + 4, length,
         result + (vec1[j] * vec2[j] + vec1[j + 1] * vec2[j + 1]
                   + vec1[j + 2] * vec2[j + 2] + vec1[j + 3] * vec2[j + 3]))

\* Mutant: the remainder loop stops one element early.
RECURSIVE Optimized_tailLoop_stopEarly(_, _, _, _)
Optimized_tailLoop_stopEarly(vec1, vec2, j, result) ==
  IF j >= Len(vec1) THEN result
  ELSE Optimized_tailLoop_stopEarly(vec1, vec2, j + 1, result + vec1[j] * vec2[j])

RECURSIVE Optimized_tailLoop(_, _, _, _)
Optimized_tailLoop(vec1, vec2, j, result) ==
  IF j > Len(vec1) THEN result
  ELSE Optimized_tailLoop(vec1, vec2, j + 1, result + vec1[j] * vec2[j])

Optimized_dotProduct(vec1, vec2) ==
  IF Len(vec1) # Len(vec2) THEN 0
  ELSE LET dims == Len(vec1)
           length == (dims \div 4) * 4
       IN  IF dims < 4 THEN Optimized_tailLoop(vec1, vec2, 1, 0)
           ELSE Optimized_tailLoop(vec1, vec2, length + 1,
                  Optimized_unrolledLoop(vec1, vec2, 1, length, 0))

RECURSIVE Optimized_maxLoop(_, _, _, _)
Optimized_maxLoop(queryToken, docEmbedding, j, maxSim) ==
  IF j > Len(docEmbedding) THEN maxSim
  ELSE Optimized_maxLoop(queryToken, docEmbedding, j + 1,
         MathMax(maxSim, Optimized_dotProduct(queryToken, docEmbedding[j])))

RECURSIVE Optimized_sumLoop(_, _, _, _)
Optimized_sumLoop(queryEmbedding, docEmbedding, i, sumMaxSim) ==
  IF i > Len(queryEmbedding) THEN sumMaxSim
  ELSE Optimized_sumLoop(queryEmbedding, docEmbedding, i + 1,
         sumMaxSim + Optimized_maxLoop(queryEmbedding[i], docEmbedding, 1, NegInf))

Optimized_maxsimImpl(queryEmbedding, docEmbedding, normalized) ==
  IF Len(queryEmbedding) = 0 \/ Len(docEmbedding) = 0 THEN Num(0)
  ELSE LET sumMaxSim == Optimized_sumLoop(queryEmbedding, docEmbedding, 1, 0)
       IN  IF normalized THEN Quot(sumMaxSim, Len(queryEmbedding))
           ELSE Num(sumMaxSim)

Optimized_maxsim(queryEmbedding, docEmbedding) ==
  Optimized_maxsimImpl(queryEmbedding, docEmbedding, FALSE)

Optimized_maxsim_normalized(queryEmbedding, docEmbedding) ==
  Optimized_maxsimImpl(queryEmbedding, docEmbedding, TRUE)

RECURSIVE Optimized_batchLoop(_, _, _, _, _)
Optimized_batchLoop(queryEmbedding, docEmbeddings, normalized, i, scores) ==
  IF i > Len(docEmbeddings) THEN scores
  ELSE Optimized_batchLoop(queryEmbedding, docEmbeddings, normalized, i + 1,
         [scores EXCEPT ![i] =
            IF normalized
            THEN Optimized_maxsim_normalized(queryEmbedding, docEmbeddings[i])
            ELSE Optimized_maxsim(queryEmbedding, docEmbeddings[i])])

Optimized_maxsimBatch(queryEmbedding, docEmbeddings) ==
  Optimized_batchLoop(queryEmbedding, docEmbeddings, FALSE, 1,
                      NewArray(Len(docEmbeddings)))

Optimized_maxsimBatch_normalized(queryEmbedding, docEmbeddings) ==
  Optimized_batchLoop(queryEmbedding, docEmbeddings, TRUE, 1,
                      NewArray(Len(docEmbeddings)))

\* ------------------------------------------------------------------ state
\* query, docs: the caller's nested embeddings.
\* ret: the last call made and what it returned (op = "none" before any).
\* isInitialized, wasmInstance: the fields of the MaxSimWasm wrapper.
\* buffers: the caller's flat buffers, as handed to the last flat-buffer call.
\* corpus: the documents stored in the WASM instance by load_documents.
\* prev: what the instance showed before the last call on the corpus (the
\* number of stored documents).
\* calls: per caller, the call on the corpus it is inside and how far it got.
\* completed: the corpora that completed loads have stored so far.
\* docBuffer: the length of the wrapper's persistent buffer (0: not allocated).
\* blocks: the block sizes the blocked kernel traverses with (0: none chosen),
\* and while it runs the block it is at and the per-query-token maxima so far.
\* initCall: the init() call in progress (the await it is suspended at and
\* its attempt number), and whether an init() call has resolved.
\* facade: the MaxSim.create call (where it stands, its backend option, what
\* isSupported() answered) and the instance it returned (_impl, backend).
\* inits: init() calls made without awaiting one another: per caller the await
\* its call is suspended at, its attempt and how it settled; whether the
\* module was imported and its WebAssembly loaded; how many MaxSimWasm
\* instances were created, and which one wasmInstance refers to.
\* threaded: the MaxSimWasmThreaded wrapper (messageId, pendingMessages,
\* isInitialized, its worker and the init() call in progress), the messages
\* posted to the worker and not yet handled, the worker's module variable
\* wasmInstance and the init handlers it is suspended in, the responses posted
\* and not yet delivered, what every request was, how many responses the
\* worker posted for it, and how its promise settled. In the worker the
\* MaxSimWasm object's fields are isInitialized, wasmInstance and docBuffer.
\* packing: the last maxsimBatchZeroAlloc call seen at the level of its
\* buffer: the shape of its inputs (token counts and dimension, and whether
\* the tokens are Float32Arrays), the offset packing ended at and how it
\* ended; and, for calls on the enumerated inputs, the query and the number
\* of documents of the call and the floats the persistent buffer holds from
\* its start up to the last position ever written since it was allocated.
VARIABLES query, docs, ret, isInitialized, wasmInstance, buffers, corpus, prev,
          calls, completed, docBuffer, blocks, initCall, facade, inits,
          threaded, packing

vars == <<query, docs, ret, isInitialized, wasmInstance, buffers, corpus, prev,
          calls, completed, docBuffer, blocks, initCall, facade, inits,
          threaded, packing>>

wasmVars == <<isInitialized, wasmInstance, docBuffer, initCall>>

flatVars == <<buffers, corpus, prev>>

callVars == <<calls, completed>>

Impls == {"baseline", "optimized"}

\* kind: "value" (a number returned), "scores" (an array returned), "done"
\* (returned nothing), "error" (an exception thrown, msg naming it) or "none".
NoCall ==
  [op |-> "none", impl |-> "none", idx |-> 0, kind |-> "none",
   val |-> Num(0), scores |-> <<>>, msg |-> ""]

Returned(op, impl, i, v) ==
  [op |-> op, impl |-> impl, idx |-> i, kind |-> "value",
   val |-> v, scores |-> <<>>, msg |-> ""]

ReturnedScores(op, impl, s) ==
  [op |-> op, impl |-> impl, idx |-> 0, kind |-> "scores",
   val |-> Num(0), scores |-> s, msg |-> ""]

Did(op, impl) ==
  [op |-> op, impl |-> impl, idx |-> 0, kind |-> "done",
   val |-> Num(0), scores |-> <<>>, msg |-> ""]

Threw(op, impl, i, m) ==
  [op |-> op, impl |-> impl, idx |-> i, kind |-> "error",
   val |-> Num(0), scores |-> <<>>, msg |-> m]

\* A call that ended in a WebAssembly trap (a RuntimeError of the engine).
Trapped(op, impl) ==
  [op |-> op, impl |-> impl, idx |-> 0, kind |-> "trap",
   val |-> Num(0), scores |-> <<>>, msg |-> "RuntimeError"]

\* The MaxSimWasm constructor.
NoInitCall == [pc |-> "none", attempt |-> 0, resolved |-> FALSE]

WasmConstructed ==
  /\ wasmInstance = "null"
  /\ isInitialized = FALSE
  /\ docBuffer = 0
  /\ initCall = NoInitCall

\* No flat buffers prepared, no documents stored, no earlier call.
NoFlat ==
  [query_flat |-> << >>, query_tokens |-> 0, doc_flat |-> << >>,
   doc_tokens |-> << >>, embedding_dim |-> 0]

NoCorpus ==
  [loaded |-> FALSE, embeddings_flat |-> << >>, doc_tokens |-> << >>,
   embedding_dim |-> 0]

NoPrev == [num |-> 0]

\* The callers of the corpus, and a caller outside any call.
Callers == {1, 2}

Idle == [op |-> "none", pc |-> "none", args |-> NoFlat, seen |-> NoCorpus]

\* No blocked traversal configured.
NoBlocks ==
  [q |-> 0, d |-> 0, pc |-> "idle", q_block |-> 0, d_block |-> 0,
   max_sims |-> << >>, normalized |-> FALSE]

\* The callers of init(), and no init() call made by any of them.
InitCallers == {1, 2}

NoInitOf == [pc |-> "none", attempt |-> 0, outcome |-> "none"]

NoInits ==
  [call |-> [c \in InitCallers |-> NoInitOf], imported |-> FALSE,
   wasm |-> FALSE, created |-> 0, current |-> 0, resolved |-> FALSE]

\* new MaxSimWasmThreaded(): no worker, not initialized, messageId 0 and an
\* empty pendingMessages; nothing posted either way.
NoThreaded ==
  [messageId |-> 0, pendingMessages |-> {}, isInitialized |-> FALSE,
   worker |-> "null", initCall |-> 0, toWorker |-> << >>,
   wasmInstance |-> "null", suspended |-> {}, responses |-> {},
   requests |-> << >>, posted |-> << >>, settled |-> << >>]

\* No maxsimBatchZeroAlloc call made: docBuffer is null.
NoPacking ==
  [queryTokens |-> 0, embeddingDim |-> 0, docTokenCounts |-> << >>,
   typed |-> FALSE, totalSize |-> 0, offset |-> 0, outcome |-> "none",
   query |-> << >>, n |-> 0, content |-> << >>]

\* MaxSim.create not called.
NoFacade ==
  [pc |-> "none", option |-> "none", simd |-> "unknown", impl |-> "none",
   backend |-> "none"]

NoCalls ==
  /\ calls = [t \in Callers |-> Idle]
  /\ completed = {NoCorpus}

FlatUnused ==
  /\ blocks = NoBlocks
  /\ facade = NoFacade
  /\ inits = NoInits
  /\ threaded = NoThreaded
  /\ packing = NoPacking
  /\ buffers = NoFlat
  /\ corpus = NoCorpus
  /\ prev = NoPrev
  /\ NoCalls

\* ------------------------------------------------------ the JS kernels
maxsimOf(impl, q, d, normalized) ==
  IF impl = "baseline"
  THEN (IF normalized THEN Baseline_maxsim_normalized(q, d) ELSE Baseline_maxsim(q, d))
  ELSE (IF normalized THEN Optimized_maxsim_normalized(q, d) ELSE Optimized_maxsim(q, d))

maxsimBatchOf(impl, q, ds, normalized) ==
  IF impl = "baseline"
  THEN (IF normalized THEN Baseline_maxsimBatch_normalized(q, ds)
        ELSE Baseline_maxsimBatch(q, ds))
  ELSE (IF normalized THEN Optimized_maxsimBatch_normalized(q, ds)
        ELSE Optimized_maxsimBatch(q, ds))

\* Single-pair inputs: a query of dimension dq and one document of dimension
\* dd, each of at most MaxTokens tokens.
InitKernel ==
  /\ \E dq \in Dims, dd \in Dims :
       /\ query \in Embeddings(dq)
       /\ docs \in [1..1 -> Embeddings(dd)]
  /\ ret = NoCall
  /\ WasmConstructed
  /\ FlatUnused

\* maxsim(query, docs[i]) on either implementation.
CallMaxsim ==
  \E impl \in Impls, i \in 1..Len(docs) :
    /\ ret' = Returned("maxsim", impl, i, maxsimOf(impl, query, docs[i], FALSE))
    /\ UNCHANGED <<query, docs, packing, threaded, inits, blocks, facade, wasmVars, flatVars, callVars>>

\* maxsim_normalized(query, docs[i]) on either implementation.
CallMaxsimNormalized ==
  \E impl \in Impls, i \in 1..Len(docs) :
    /\ ret' = Returned("maxsim_normalized", impl, i,
                        maxsimOf(impl, query, docs[i], TRUE))
    /\ UNCHANGED <<query, docs, packing, threaded, inits, blocks, facade, wasmVars, flatVars, callVars>>

\* maxsimBatch(query, docs) on either implementation.
CallMaxsimBatch ==
  \E impl \in Impls :
    /\ ret' = ReturnedScores("maxsimBatch", impl,
                              maxsimBatchOf(impl, query, docs, FALSE))
    /\ UNCHANGED <<query, docs, packing, threaded, inits, blocks, facade, wasmVars, flatVars, callVars>>

\* maxsimBatch_normalized(query, docs) on either implementation.
CallMaxsimBatchNormalized ==
  \E impl \in Impls :
    /\ ret' = ReturnedScores("maxsimBatch_normalized", impl,
                              maxsimBatchOf(impl, query, docs, TRUE))
    /\ UNCHANGED <<query, docs, packing, threaded, inits, blocks, facade, wasmVars, flatVars, callVars>>

NextKernel ==
  \/ CallMaxsim
  \/ CallMaxsimNormalized
  \/ CallMaxsimBatch
  \/ CallMaxsimBatchNormalized

SpecKernel == InitKernel /\ [][NextKernel]_vars

\* ------------------------------------------ the WASM kernel (Rust, lib.rs)
\* The compiled kernel's source is not part of the sources at hand; these
\* definitions follow sections 4.1 and 4.2 of the specification and the
\* signatures of the generated bindings.  Buffers are flat: token t of a
\* sequence occupies positions (t-1)*D+1 .. t*D.

\* dot_product of the D floats after aoff in a and after boff in b.
RECURSIVE Rust_dot_product(_, _, _, _, _)
Rust_dot_product(a, aoff, b, boff, k) ==
  IF k = 0 THEN 0
  ELSE Rust_dot_product(a, aoff, b, boff, k - 1) + a[aoff + k] * b[boff + k]

\* Maximum over the doc_tokens tokens after doc_off of the dot product with
\* query token i.
RECURSIVE Rust_max_sim(_, _, _, _, _, _, _)
Rust_max_sim(query_flat, i, doc_flat, doc_off, j, embedding_dim, max_sim) ==
  IF j = 0 THEN max_sim
  ELSE Rust_max_sim(query_flat, i, doc_flat, doc_off, j - 1, embedding_dim,
         MathMax(max_sim,
                 Rust_dot_product(query_flat, (i - 1) * embedding_dim,
                                  doc_flat, doc_off + (j - 1) * embedding_dim,
                                  embedding_dim)))

RECURSIVE Rust_sum_max(_, _, _, _, _, _)
Rust_sum_max(query_flat, i, doc_flat, doc_off, doc_tokens, embedding_dim) ==
  IF i = 0 THEN 0
  ELSE Rust_sum_max(query_flat, i - 1, doc_flat, doc_off, doc_tokens, embedding_dim)
       + Rust_max_sim(query_flat, i, doc_flat, doc_off, doc_tokens,
                      embedding_dim, NegInf)

\* maxsim_single over the document stored after doc_off: 0 when either
\* sequence is empty, the raw sum, or the sum divided by query_tokens.
Rust_maxsim_doc(query_flat, query_tokens, doc_flat, doc_off, doc_tokens, embedding_dim, normalized) ==
  IF query_tokens = 0 \/ doc_tokens = 0 THEN Num(0)
  ELSE LET sum == Rust_sum_max(query_flat, query_tokens, doc_flat, doc_off,
                               doc_tokens, embedding_dim)
       IN  IF normalized THEN Quot(sum, query_tokens) ELSE Num(sum)

Rust_maxsim_single(query_flat, query_tokens, doc_flat, doc_tokens, embedding_dim) ==
  Rust_maxsim_doc(query_flat, query_tokens, doc_flat, 0, doc_tokens,
                  embedding_dim, FALSE)

Rust_maxsim_single_normalized(query_flat, query_tokens, doc_flat, doc_tokens, embedding_dim) ==
  Rust_maxsim_doc(query_flat, query_tokens, doc_flat, 0, doc_tokens,
                  embedding_dim, TRUE)

\* Prefix sum of the token counts before document i, in floats.
RECURSIVE Rust_doc_offset(_, _, _)
Rust_doc_offset(doc_tokens, i, embedding_dim) ==
  IF i = 1 THEN 0
  ELSE Rust_doc_offset(doc_tokens, i - 1, embedding_dim)
       + doc_tokens[i - 1] * embedding_dim

\* The on-the-fly sort of maxsim_batch_impl orders the documents by token
\* count, longest first, documents of one length in the order given.  (That
\* the sort is by document length is quoted; its direction is not in the
\* sources.)  The place of document i in the sorted order:
Rust_sort_rank(doc_tokens, i) ==
  1 + Cardinality({j \in 1..Len(doc_tokens) :
                     \/ doc_tokens[j] > doc_tokens[i]
                     \/ (doc_tokens[j] = doc_tokens[i] /\ j < i)})

\* The indices 1..n of the documents in the sorted order.
Rust_sort_by_length(doc_tokens) ==
  [k \in 1..Len(doc_tokens) |->
     CHOOSE i \in 1..Len(doc_tokens) : Rust_sort_rank(doc_tokens, i) = k]

\* The scores of the documents taken in the order `order`, each document
\* read at its own prefix-sum offset of the caller's buffer.
Rust_scores_in_order(query_flat, query_tokens, doc_flat, doc_tokens, embedding_dim, normalized, order) ==
  [k \in 1..Len(order) |->
     LET i == order[k]
     IN  Rust_maxsim_doc(query_flat, query_tokens, doc_flat,
                         Rust_doc_offset(doc_tokens, i, embedding_dim),
                         doc_tokens[i], embedding_dim, normalized)]

\* Mutant: the scores are returned in the order the documents were scored.
Rust_maxsim_batch_impl_sortedOrder(query_flat, query_tokens, doc_flat, doc_tokens, embedding_dim, normalized, is_sorted) ==
  Rust_scores_in_order(query_flat, query_tokens, doc_flat, doc_tokens,
                       embedding_dim, normalized,
                       IF is_sorted THEN [i \in 1..Len(doc_tokens) |-> i]
                       ELSE Rust_sort_by_length(doc_tokens))

\* maxsim_batch_impl, variable-length path.  With is_sorted the documents
\* are scored in the order given; without it they are first sorted by
\* length, scored in the sorted order, and the score of each document is
\* stored at the index the caller gave it: one score per entry of
\* doc_tokens, in that order.  The sub-batches of 16 documents and their
\* zero padding are not represented.
Rust_maxsim_batch_impl(query_flat, query_tokens, doc_flat, doc_tokens, embedding_dim, normalized, is_sorted) ==
  LET n == Len(doc_tokens)
      order == IF is_sorted THEN [i \in 1..n |-> i]
               ELSE Rust_sort_by_length(doc_tokens)
      sorted_scores == Rust_scores_in_order(query_flat, query_tokens, doc_flat,
                                            doc_tokens, embedding_dim,
                                            normalized, order)
  IN  [i \in 1..n |->
         sorted_scores[IF is_sorted THEN i ELSE Rust_sort_rank(doc_tokens, i)]]

\* The exports maxsim_batch and maxsim_batch_normalized are handed
\* documents in the caller's order, as search_preloaded is.
Rust_maxsim_batch(query_flat, query_tokens, doc_flat, doc_tokens, embedding_dim) ==
  Rust_maxsim_batch_impl(query_flat, query_tokens, doc_flat, doc_tokens,
                         embedding_dim, FALSE, FALSE)

Rust_maxsim_batch_normalized(query_flat, query_tokens, doc_flat, doc_tokens, embedding_dim) ==
  Rust_maxsim_batch_impl(query_flat, query_tokens, doc_flat, doc_tokens,
                         embedding_dim, TRUE, FALSE)

\* Mutant: every document read at the start of the buffer.
Rust_maxsim_batch_uniform_impl_noStride(query_flat, query_tokens, doc_flat, num_docs, doc_tokens, embedding_dim, normalized) ==
  [i \in 1..num_docs |->
     Rust_maxsim_doc(query_flat, query_tokens, doc_flat, 0,
                     doc_tokens, embedding_dim, normalized)]

\* maxsim_batch_uniform: document i read at the fixed stride
\* (i-1) * doc_tokens * embedding_dim.
Rust_maxsim_batch_uniform_impl(query_flat, query_tokens, doc_flat, num_docs, doc_tokens, embedding_dim, normalized) ==
  [i \in 1..num_docs |->
     Rust_maxsim_doc(query_flat, query_tokens, doc_flat,
                     (i - 1) * doc_tokens * embedding_dim,
                     doc_tokens, embedding_dim, normalized)]

Rust_maxsim_batch_uniform(query_flat, query_tokens, doc_flat, num_docs, doc_tokens, embedding_dim) ==
  Rust_maxsim_batch_uniform_impl(query_flat, query_tokens, doc_flat, num_docs,
                                 doc_tokens, embedding_dim, FALSE)

Rust_maxsim_batch_uniform_normalized(query_flat, query_tokens, doc_flat, num_docs, doc_tokens, embedding_dim) ==
  Rust_maxsim_batch_uniform_impl(query_flat, query_tokens, doc_flat, num_docs,
                                 doc_tokens, embedding_dim, TRUE)

\* ------------------------------------------------- MaxSimWasm (JS wrapper)
NotInitializedMsg == "WASM not initialized. Call init() first."

\* new Float32Array(n): n zeros, as a buffer and as an array of scores.
Float32Zeros(n) == [k \in 1..n |-> 0]
ZeroScores(n) == [k \in 1..n |-> Num(0)]

\* flattenEmbedding: each token copied whole at offset t * embeddingDim,
\* embeddingDim being the length of the first token.
\* Mutant: the offset never advances, every token is copied to the start.
RECURSIVE Wasm_flattenLoop_noOffset(_, _, _, _)
Wasm_flattenLoop_noOffset(embedding, embeddingDim, t, flat) ==
  IF t > Len(embedding) THEN flat
  ELSE LET token == embedding[t]
       IN  Wasm_flattenLoop_noOffset(embedding, embeddingDim, t + 1,
             [k \in 1..Len(flat) |->
                IF k <= Len(token) THEN token[k] ELSE flat[k]])

RECURSIVE Wasm_flattenLoop(_, _, _, _)
Wasm_flattenLoop(embedding, embeddingDim, t, flat) ==
  IF t > Len(embedding) THEN flat
  ELSE LET offset == (t - 1) * embeddingDim
           token == embedding[t]
       IN  Wasm_flattenLoop(embedding, embeddingDim, t + 1,
             [k \in 1..Len(flat) |->
                IF k > offset /\ k <= offset + Len(token)
                THEN token[k - offset] ELSE flat[k]])

Wasm_flattenEmbedding(embedding) ==
  LET numTokens == Len(embedding)
      embeddingDim == Len(embedding[1])
  IN  [flat |-> Wasm_flattenLoop(embedding, embeddingDim, 1,
                                 Float32Zeros(numTokens * embeddingDim)),
       numTokens |-> numTokens,
       embeddingDim |-> embeddingDim]

\* maxsim / maxsim_normalized past the initialization check: 0 for an empty
\* query or document, else both flattened and handed to maxsim_single with
\* the query's dimension.
Wasm_maxsim(queryEmbedding, docEmbedding, normalized) ==
  IF Len(queryEmbedding) = 0 \/ Len(docEmbedding) = 0 THEN Num(0)
  ELSE LET q == Wasm_flattenEmbedding(queryEmbedding)
           d == Wasm_flattenEmbedding(docEmbedding)
       IN  IF normalized
           THEN Rust_maxsim_single_normalized(q.flat, q.numTokens, d.flat,
                                              d.numTokens, q.embeddingDim)
           ELSE Rust_maxsim_single(q.flat, q.numTokens, d.flat,
                                   d.numTokens, q.embeddingDim)

\* The packing loops of maxsimBatch: buffer[offset + d] = token[d] for
\* d < embeddingDim, token after token.
RECURSIVE Wasm_packTokens(_, _, _)
Wasm_packTokens(tokens, numTokens, embeddingDim) ==
  IF numTokens = 0 THEN << >>
  ELSE Wasm_packTokens(tokens, numTokens - 1, embeddingDim)
       \o [d \in 1..embeddingDim |-> tokens[numTokens][d]]

\* Uniform path: the first firstDocLength tokens of each document.
RECURSIVE Wasm_packDocsUniform(_, _, _, _)
Wasm_packDocsUniform(docEmbeddings, numDocs, firstDocLength, embeddingDim) ==
  IF numDocs = 0 THEN << >>
  ELSE Wasm_packDocsUniform(docEmbeddings, numDocs - 1, firstDocLength, embeddingDim)
       \o Wasm_packTokens(docEmbeddings[numDocs], firstDocLength, embeddingDim)

\* Variable-length path: every token of every document.
RECURSIVE Wasm_packDocs(_, _, _)
Wasm_packDocs(docEmbeddings, numDocs, embeddingDim) ==
  IF numDocs = 0 THEN << >>
  ELSE Wasm_packDocs(docEmbeddings, numDocs - 1, embeddingDim)
       \o Wasm_packTokens(docEmbeddings[numDocs], Len(docEmbeddings[numDocs]),
                          embeddingDim)

\* maxsimBatch, the path taken when every document has the first one's
\* length: one buffer, maxsim_batch_uniform.
Wasm_maxsimBatchUniformPath(queryEmbedding, docEmbeddings, normalized) ==
  LET queryTokens == Len(queryEmbedding)
      embeddingDim == Len(queryEmbedding[1])
      numDocs == Len(docEmbeddings)
      firstDocLength == Len(docEmbeddings[1])
      queryPart == Wasm_packTokens(queryEmbedding, queryTokens, embeddingDim)
      docPart == Wasm_packDocsUniform(docEmbeddings, numDocs, firstDocLength,
                                      embeddingDim)
  IN  IF normalized
      THEN Rust_maxsim_batch_uniform_normalized(
             queryPart, queryTokens, docPart, numDocs, firstDocLength,
             embeddingDim)
      ELSE Rust_maxsim_batch_uniform(
             queryPart, queryTokens, docPart, numDocs, firstDocLength,
             embeddingDim)

\* maxsimBatch, the variable-length path: one buffer and the token counts,
\* maxsim_batch.
Wasm_maxsimBatchVariablePath(queryEmbedding, docEmbeddings, normalized) ==
  LET queryTokens == Len(queryEmbedding)
      embeddingDim == Len(queryEmbedding[1])
      numDocs == Len(docEmbeddings)
      docTokenCounts == [i \in 1..numDocs |-> Len(docEmbeddings[i])]
      queryPart == Wasm_packTokens(queryEmbedding, queryTokens, embeddingDim)
      docPart == Wasm_packDocs(docEmbeddings, numDocs, embeddingDim)
  IN  IF normalized
      THEN Rust_maxsim_batch_normalized(
             queryPart, queryTokens, docPart, docTokenCounts, embeddingDim)
      ELSE Rust_maxsim_batch(
             queryPart, queryTokens, docPart, docTokenCounts, embeddingDim)

\* docEmbeddings.every(doc => doc.length === firstDocLength)
Wasm_allSameLength(docEmbeddings) ==
  \A i \in 1..Len(docEmbeddings) : Len(docEmbeddings[i]) = Len(docEmbeddings[1])

\* maxsimBatch / maxsimBatch_normalized past the initialization check.
Wasm_maxsimBatch(queryEmbedding, docEmbeddings, normalized) ==
  IF Len(queryEmbedding) = 0 \/ Len(docEmbeddings) = 0
  THEN ZeroScores(Len(docEmbeddings))
  ELSE IF Wasm_allSameLength(docEmbeddings)
       THEN Wasm_maxsimBatchUniformPath(queryEmbedding, docEmbeddings, normalized)
       ELSE Wasm_maxsimBatchVariablePath(queryEmbedding, docEmbeddings, normalized)

\* Reading .length of queryEmbedding[0] when the query has no tokens.
UndefinedLengthMsg == "TypeError: Cannot read properties of undefined (reading 'length')"

maxBufferSize == 50 * 1024 * 1024

\* The length of the persistent buffer after the resize check.
Wasm_resizedBuffer(length, totalSize) ==
  IF length = 0 \/ length < totalSize
  THEN LET grown == (totalSize * 3) \div 2
           floor == IF grown > 1024 * 1024 THEN grown ELSE 1024 * 1024
       IN  IF floor < maxBufferSize THEN floor ELSE maxBufferSize
  ELSE length

\* docEmbeddings.reduce((sum, doc) => sum + doc.length * embeddingDim, 0)
RECURSIVE Wasm_docSize(_, _, _)
Wasm_docSize(docEmbeddings, numDocs, embeddingDim) ==
  IF numDocs = 0 THEN 0
  ELSE Wasm_docSize(docEmbeddings, numDocs - 1, embeddingDim)
       + Len(docEmbeddings[numDocs]) * embeddingDim

\* maxsimBatchZeroAlloc past the initialization check: the query's dimension
\* is read from its first token with no check for an empty query; then the
\* query and every document token are packed into the persistent buffer and
\* handed to maxsim_batch as two views of it.
Wasm_maxsimBatchZeroAlloc(queryEmbedding, docEmbeddings, length) ==
  IF Len(queryEmbedding) = 0
  THEN [ret |-> Threw("maxsimBatchZeroAlloc", "wasm", 0, UndefinedLengthMsg),
        docBuffer |-> length]
  ELSE
    LET queryTokens == Len(queryEmbedding)
        embeddingDim == Len(queryEmbedding[1])
        numDocs == Len(docEmbeddings)
        querySize == queryTokens * embeddingDim
        docTokenCounts == [i \in 1..numDocs |-> Len(docEmbeddings[i])]
        docSize == Wasm_docSize(docEmbeddings, numDocs, embeddingDim)
        queryPart == Wasm_packTokens(queryEmbedding, queryTokens, embeddingDim)
        docPart == Wasm_packDocs(docEmbeddings, numDocs, embeddingDim)
    IN  [ret |-> ReturnedScores("maxsimBatchZeroAlloc", "wasm",
                   Rust_maxsim_batch(queryPart, queryTokens, docPart,
                                     docTokenCounts, embeddingDim)),
         docBuffer |-> Wasm_resizedBuffer(length, querySize + docSize)]

\* Batch inputs: a query and up to MaxDocs documents, all of dimension 2.
InitBatch ==
  /\ query \in BatchQueries
  /\ docs \in SeqUpTo(BatchDocs, MaxDocs)
  /\ ret = NoCall
  /\ WasmConstructed
  /\ FlatUnused

\* init() is an async function: between its awaits other callers run. One
\* init() call is in flight at a time.
maxRetries == 3

InitFailedMsg == "WASM initialization failed after 3 attempts"

\* init() is called: it returns at once when already initialized, else it
\* starts attempt 1 and suspends at the import of the WASM module.
InitCallEnter ==
  /\ initCall.pc = "none"
  /\ IF isInitialized
     THEN /\ ret' = Did("init", "wasm")
          /\ initCall' = [initCall EXCEPT !.resolved = TRUE]
     ELSE /\ initCall' = [initCall EXCEPT !.pc = "import", !.attempt = 1]
          /\ UNCHANGED ret
  /\ UNCHANGED <<query, docs, packing, threaded, inits, blocks, facade, isInitialized, wasmInstance, docBuffer, flatVars, callVars>>

\* The import and the module's default() resolve: the instance is created,
\* isInitialized is set, and the call suspends at await isSupported().
InitCallInstantiate ==
  /\ initCall.pc = "import"
  /\ wasmInstance' = "instance"
  /\ isInitialized' = TRUE
  /\ initCall' = [initCall EXCEPT !.pc = "isSupported"]
  /\ UNCHANGED <<query, docs, packing, threaded, inits, blocks, facade, ret, docBuffer, flatVars, callVars>>

\* The import or default() rejects: the catch block waits before the next
\* attempt, or throws after the last one.
InitCallAttemptFails ==
  /\ initCall.pc = "import"
  /\ IF initCall.attempt < maxRetries
     THEN /\ initCall' = [initCall EXCEPT !.pc = "retryDelay"]
          /\ UNCHANGED ret
     ELSE /\ initCall' = [initCall EXCEPT !.pc = "none", !.attempt = 0]
          /\ ret' = Threw("init", "wasm", 0, InitFailedMsg)
  /\ UNCHANGED <<query, docs, packing, threaded, inits, blocks, facade, isInitialized, wasmInstance, docBuffer, flatVars, callVars>>

\* The retry delay elapses: the next attempt starts.
InitCallRetry ==
  /\ initCall.pc = "retryDelay"
  /\ initCall' = [initCall EXCEPT !.pc = "import", !.attempt = @ + 1]
  /\ UNCHANGED <<query, docs, packing, threaded, inits, blocks, facade, ret, isInitialized, wasmInstance, docBuffer, flatVars, callVars>>

\* isSupported() resolves and get_info() is called on the instance.  On a
\* live instance the status is logged and init() returns.  On an instance
\* freed while init() was suspended get_info() throws inside the try block:
\* the catch block waits before the next attempt, which creates a new
\* instance, or throws after the last one; isInitialized stays set.
InitCallResolve ==
  /\ initCall.pc = "isSupported"
  /\ IF wasmInstance # "freed"
     THEN /\ initCall' = [pc |-> "none", attempt |-> 0, resolved |-> TRUE]
          /\ ret' = Did("init", "wasm")
     ELSE IF initCall.attempt < maxRetries
     THEN /\ initCall' = [initCall EXCEPT !.pc = "retryDelay"]
          /\ UNCHANGED ret
     ELSE /\ initCall' = [initCall EXCEPT !.pc = "none", !.attempt = 0]
          /\ ret' = Threw("init", "wasm", 0,
                          "WASM initialization failed after 3 attempts: null pointer passed to rust")
  /\ UNCHANGED <<query, docs, packing, threaded, inits, blocks, facade, isInitialized, wasmInstance, docBuffer, flatVars, callVars>>

\* One step of the init() call: its entry, or one of its awaits settling.
WasmInit ==
  \/ InitCallEnter
  \/ InitCallInstantiate
  \/ InitCallAttemptFails
  \/ InitCallRetry
  \/ InitCallResolve

\* MaxSimWasm.maxsim(query, docs[i]).
WasmMaxsim ==
  \E i \in 1..Len(docs) :
    /\ ret' = IF ~isInitialized THEN Threw("maxsim", "wasm", i, NotInitializedMsg)
              ELSE Returned("maxsim", "wasm", i, Wasm_maxsim(query, docs[i], FALSE))
    /\ UNCHANGED <<query, docs, packing, threaded, inits, blocks, facade, wasmVars, flatVars, callVars>>

\* MaxSimWasm.maxsim_normalized(query, docs[i]).
WasmMaxsimNormalized ==
  \E i \in 1..Len(docs) :
    /\ ret' = IF ~isInitialized
              THEN Threw("maxsim_normalized", "wasm", i, NotInitializedMsg)
              ELSE Returned("maxsim_normalized", "wasm", i,
                            Wasm_maxsim(query, docs[i], TRUE))
    /\ UNCHANGED <<query, docs, packing, threaded, inits, blocks, facade, wasmVars, flatVars, callVars>>

\* MaxSimWasm.maxsimBatch(query, docs).
WasmMaxsimBatch ==
  /\ ret' = IF ~isInitialized THEN Threw("maxsimBatch", "wasm", 0, NotInitializedMsg)
            ELSE ReturnedScores("maxsimBatch", "wasm",
                                Wasm_maxsimBatch(query, docs, FALSE))
  /\ UNCHANGED <<query, docs, packing, threaded, inits, blocks, facade, wasmVars, flatVars, callVars>>

\* MaxSimWasm.maxsimBatch_normalized(query, docs).
WasmMaxsimBatchNormalized ==
  /\ ret' = IF ~isInitialized
            THEN Threw("maxsimBatch_normalized", "wasm", 0, NotInitializedMsg)
            ELSE ReturnedScores("maxsimBatch_normalized", "wasm",
                                Wasm_maxsimBatch(query, docs, TRUE))
  /\ UNCHANGED <<query, docs, packing, threaded, inits, blocks, facade, wasmVars, flatVars, callVars>>

\* MaxSimWasm.maxsimBatchZeroAlloc(query, docs).
WasmMaxsimBatchZeroAlloc ==
  /\ IF ~isInitialized
     THEN /\ ret' = Threw("maxsimBatchZeroAlloc", "wasm", 0, NotInitializedMsg)
          /\ UNCHANGED docBuffer
     ELSE LET out == Wasm_maxsimBatchZeroAlloc(query, docs, docBuffer)
          IN  /\ ret' = out.ret
              /\ docBuffer' = out.docBuffer
  /\ UNCHANGED <<query, docs, packing, threaded, inits, blocks, facade, isInitialized, wasmInstance, initCall, flatVars, callVars>>

NextBatch ==
  \/ CallMaxsim
  \/ CallMaxsimNormalized
  \/ CallMaxsimBatch
  \/ CallMaxsimBatchNormalized
  \/ WasmInit
  \/ WasmMaxsim
  \/ WasmMaxsimNormalized
  \/ WasmMaxsimBatch
  \/ WasmMaxsimBatchNormalized
  \/ WasmMaxsimBatchZeroAlloc

SpecBatch == InitBatch /\ [][NextBatch]_vars

\* ----------------------------------------------------- flat-buffer inputs
\* The enumerated flat buffers: float k of sign pattern p.  At dimension 2
\* pattern 1 reads (1,1), (-1,1), (1,-1), ... and pattern 2 reads (-1,-1),
\* (1,1), (-1,-1), ...
Patterns == {1, 2}

PatternAt(p, k) ==
  IF p = 1 THEN (IF k % 3 = 0 THEN -1 ELSE 1)
  ELSE (IF k % 4 \in {1, 2} THEN -1 ELSE 1)

FlatBuffers(n) == {[k \in 1..n |-> PatternAt(p, k)] : p \in Patterns}

\* Per-document token counts of a flat batch or of a corpus.
TokenCountSeqs == SeqUpTo(0..MaxTokens, MaxDocs)

\* Buffer lengths tried for an expected length e: one short, exact, one over.
BufferLengths(e) == {n \in {e - 1, e, e + 1} : n >= 0}

\* Dimension of the flat batches and corpora.
FlatDims == {2}

\* Per-document token counts of the corpora loaded: up to MaxDocs documents
\* of no, one or two tokens.
CorpusTokenCounts == SeqUpTo({0, 1, 2}, MaxDocs)

\* Buffers offered to load_documents for an expected length e: both patterns
\* at the exact length, pattern 1 one float short and one float over.
LoadBuffers(e) ==
  FlatBuffers(e)
  \cup {[k \in 1..n |-> PatternAt(1, k)] : n \in BufferLengths(e) \ {e}}

\* ------------------------------- the WASM kernel on contract violations
\* doc_tokens.iter().sum()
RECURSIVE Rust_total_tokens(_)
Rust_total_tokens(doc_tokens) ==
  IF Len(doc_tokens) = 0 THEN 0
  ELSE doc_tokens[1] + Rust_total_tokens(Tail(doc_tokens))

\* A buffer read as n floats: its own where it has them, g where the read
\* leaves the buffer.
ReadAs(buf, n, g) == [k \in 1..n |-> IF k <= Len(buf) THEN buf[k] ELSE g]

\* The binding of maxsim_batch / maxsim_batch_normalized has no error result:
\* it returns the kernel's score array, or the engine's trap passes through
\* it.  With doc_flat of the length the token counts imply, the scores are
\* the kernel's.  With any other length, what the compiled kernel does
\* decides: it traps, or it scores what it reads (the buffer's prefix, and
\* whatever lies after a buffer that is too short).
Binding_maxsim_batch(query_flat, query_tokens, doc_flat, doc_tokens, embedding_dim, normalized) ==
  LET expected == Rust_total_tokens(doc_tokens) * embedding_dim
      scoresOf(buf) ==
        IF normalized
        THEN Rust_maxsim_batch_normalized(query_flat, query_tokens, buf,
                                          doc_tokens, embedding_dim)
        ELSE Rust_maxsim_batch(query_flat, query_tokens, buf, doc_tokens,
                               embedding_dim)
  IN  IF Len(doc_flat) = expected
      THEN {[kind |-> "scores", scores |-> scoresOf(doc_flat)]}
      ELSE {[kind |-> "trap", scores |-> << >>]}
           \cup {[kind |-> "scores", scores |-> scoresOf(ReadAs(doc_flat, expected, g))]
                 : g \in Vals}

\* ------------------------------------------- MaxSimWasm, the flat API
QuerySizeMismatchMsg == "Query size mismatch"

\* Mutant: no initialization check.
Wasm_maxsimBatchFlat_unguarded(op, initialized, queryFlat, queryTokens, docsFlat, docTokenCounts, embeddingDim, normalized) ==
  IF Len(queryFlat) # queryTokens * embeddingDim
  THEN {Threw(op, "wasm", 0, QuerySizeMismatchMsg)}
  ELSE IF Len(docTokenCounts) = 0 THEN {ReturnedScores(op, "wasm", << >>)}
  ELSE {IF o.kind = "trap" THEN Trapped(op, "wasm")
        ELSE ReturnedScores(op, "wasm", o.scores)
        : o \in Binding_maxsim_batch(queryFlat, queryTokens, docsFlat,
                                     docTokenCounts, embeddingDim, normalized)}

\* maxsimBatchFlat / maxsimBatchFlat_normalized, the whole call: the set of
\* results it can end with.
Wasm_maxsimBatchFlat(op, initialized, queryFlat, queryTokens, docsFlat, docTokenCounts, embeddingDim, normalized) ==
  IF ~initialized THEN {Threw(op, "wasm", 0, NotInitializedMsg)}
  ELSE IF Len(queryFlat) # queryTokens * embeddingDim
  THEN {Threw(op, "wasm", 0, QuerySizeMismatchMsg)}
  ELSE IF Len(docTokenCounts) = 0 THEN {ReturnedScores(op, "wasm", << >>)}
  ELSE {IF o.kind = "trap" THEN Trapped(op, "wasm")
        ELSE ReturnedScores(op, "wasm", o.scores)
        : o \in Binding_maxsim_batch(queryFlat, queryTokens, docsFlat,
                                     docTokenCounts, embeddingDim, normalized)}

\* Flat inputs: a query buffer of the right size or one float over, and a
\* document buffer one short of, equal to, or one over what the token counts
\* imply.
InitFlat ==
  /\ query = << >>
  /\ docs = << >>
  /\ \E query_tokens \in 0..MaxTokens, embedding_dim \in FlatDims,
        doc_tokens \in TokenCountSeqs :
       \E qn \in {query_tokens * embedding_dim, query_tokens * embedding_dim + 1},
          dn \in BufferLengths(Rust_total_tokens(doc_tokens) * embedding_dim) :
         \E query_flat \in FlatBuffers(qn), doc_flat \in FlatBuffers(dn) :
           buffers = [query_flat |-> query_flat, query_tokens |-> query_tokens,
                   doc_flat |-> doc_flat, doc_tokens |-> doc_tokens,
                   embedding_dim |-> embedding_dim]
  /\ blocks = NoBlocks
  /\ facade = NoFacade
  /\ inits = NoInits
  /\ threaded = NoThreaded
  /\ packing = NoPacking
  /\ corpus = NoCorpus
  /\ prev = NoPrev
  /\ NoCalls
  /\ ret = NoCall
  /\ WasmConstructed

\* MaxSimWasm.maxsimBatchFlat on the caller's flat buffers.
WasmMaxsimBatchFlat ==
  /\ ret' \in Wasm_maxsimBatchFlat("maxsimBatchFlat", isInitialized,
                buffers.query_flat, buffers.query_tokens, buffers.doc_flat,
                buffers.doc_tokens, buffers.embedding_dim, FALSE)
  /\ UNCHANGED <<query, docs, packing, threaded, inits, blocks, facade, wasmVars, flatVars, callVars>>

\* MaxSimWasm.maxsimBatchFlat_normalized on the caller's flat buffers.
WasmMaxsimBatchFlatNormalized ==
  /\ ret' \in Wasm_maxsimBatchFlat("maxsimBatchFlat_normalized", isInitialized,
                buffers.query_flat, buffers.query_tokens, buffers.doc_flat,
                buffers.doc_tokens, buffers.embedding_dim, TRUE)
  /\ UNCHANGED <<query, docs, packing, threaded, inits, blocks, facade, wasmVars, flatVars, callVars>>

NextFlat ==
  \/ WasmInit
  \/ WasmMaxsimBatchFlat
  \/ WasmMaxsimBatchFlatNormalized

SpecFlat == InitFlat /\ [][NextFlat]_vars

\* ------------------------------------------ the JS kernels on long vectors
\* Token sequences of dimension d: at most MaxTokens vectors, each one of the
\* enumerated sign patterns.
PatternEmbeddings(d) == SeqUpTo(FlatBuffers(d), MaxTokens)

\* A query of dimension dq and one document of dimension dd, the dimensions
\* running from 0 to MaxDim.
InitLong ==
  /\ \E dq \in 0..MaxDim, dd \in 0..MaxDim :
       /\ query \in PatternEmbeddings(dq)
       /\ docs \in [1..1 -> PatternEmbeddings(dd)]
  /\ ret = NoCall
  /\ WasmConstructed
  /\ FlatUnused

NextLong ==
  \/ CallMaxsim
  \/ CallMaxsimNormalized

SpecLong == InitLong /\ [][NextLong]_vars

\* ------------------------------------- the JS kernels on a repeated query
\* JavaScript numbers are IEEE-754 doubles, and every + of the kernels
\* rounds its exact result to the nearest double, ties to even.  Here a
\* double x >= 0 is written [hi, lo] for x = hi + lo * 2^-54, hi a small
\* whole number and lo a small count of units of 2^-54 (a quarter of the
\* spacing of the doubles between 1 and 2).
DoubleOf(hi, lo) == [hi |-> hi, lo |-> lo]

\* 1.0, 0.0 and 3 * 2^-54, a number that is lost or rounded up when it is
\* added to 1.0 or more.
DoubleOne == DoubleOf(1, 0)
DoubleZero == DoubleOf(0, 0)
DoubleTiny == DoubleOf(0, 3)

\* -Infinity of the running maximum, below every double written here.
DoubleNegInf == DoubleOf(-1, 0)

\* The spacing of the doubles from hi to the next power of two, hi >= 1, in
\* units of 2^-54: 4 in [1, 2), 8 in [2, 4), 16 in [4, 8), ...
RECURSIVE Double_ulp(_)
Double_ulp(hi) == IF hi < 2 THEN 4 ELSE 2 * Double_ulp(hi \div 2)

\* The double nearest to the exact number hi + lo * 2^-54, ties to the even
\* significand.  Below 1 the numbers written here are doubles themselves.
Double_round(hi, lo) ==
  IF hi = 0 THEN DoubleOf(0, lo)
  ELSE LET u == Double_ulp(hi)
           q == lo \div u
           r == lo % u
           up == 2 * r > u \/ (2 * r = u /\ q % 2 = 1)
       IN  DoubleOf(hi, (IF up THEN q + 1 ELSE q) * u)

\* x + y of two doubles.
Double_add(x, y) == Double_round(x.hi + y.hi, x.lo + y.lo)

\* x * y of two doubles of which one is a whole number (the documents
\* enumerated have whole components).
Double_mul(x, y) ==
  IF y.lo = 0 THEN Double_round(x.hi * y.hi, x.lo * y.hi)
  ELSE Double_round(x.hi * y.hi, y.lo * x.hi)

\* Math.max of two doubles.
Double_max(x, y) ==
  IF x.hi > y.hi \/ (x.hi = y.hi /\ x.lo >= y.lo) THEN x ELSE y

\* dotProduct, _maxsimImpl and maxsim of MaxSimBaseline computed in doubles.
RECURSIVE BaselineDouble_dotLoop(_, _, _, _)
BaselineDouble_dotLoop(vec1, vec2, i, result) ==
  IF i > Len(vec1) THEN result
  ELSE BaselineDouble_dotLoop(vec1, vec2, i + 1,
         Double_add(result, Double_mul(vec1[i], vec2[i])))

BaselineDouble_dotProduct(vec1, vec2) ==
  IF Len(vec1) # Len(vec2) THEN DoubleZero
  ELSE BaselineDouble_dotLoop(vec1, vec2, 1, DoubleZero)

RECURSIVE BaselineDouble_maxLoop(_, _, _, _)
BaselineDouble_maxLoop(queryToken, docEmbedding, j, maxSim) ==
  IF j > Len(docEmbedding) THEN maxSim
  ELSE BaselineDouble_maxLoop(queryToken, docEmbedding, j + 1,
         Double_max(maxSim,
                    BaselineDouble_dotProduct(queryToken, docEmbedding[j])))

RECURSIVE BaselineDouble_sumLoop(_, _, _, _)
RECURSIVE BaselineDouble_sumLoop_distinct(_, _, _, _)
\* Mutant: a query token equal to the one before it is counted once.
BaselineDouble_sumLoop_distinct(queryEmbedding, docEmbedding, i, sumMaxSim) ==
  IF i > Len(queryEmbedding) THEN sumMaxSim
  ELSE BaselineDouble_sumLoop_distinct(queryEmbedding, docEmbedding, i + 1,
         IF i > 1 /\ queryEmbedding[i] = queryEmbedding[i - 1] THEN sumMaxSim
         ELSE Double_add(sumMaxSim,
                BaselineDouble_maxLoop(queryEmbedding[i], docEmbedding, 1,
                                       DoubleNegInf)))

BaselineDouble_sumLoop(queryEmbedding, docEmbedding, i, sumMaxSim) ==
  IF i > Len(queryEmbedding) THEN sumMaxSim
  ELSE BaselineDouble_sumLoop(queryEmbedding, docEmbedding, i + 1,
         Double_add(sumMaxSim,
           BaselineDouble_maxLoop(queryEmbedding[i], docEmbedding, 1,
                                  DoubleNegInf)))

BaselineDouble_maxsim(queryEmbedding, docEmbedding) ==
  IF Len(queryEmbedding) = 0 \/ Len(docEmbedding) = 0 THEN DoubleZero
  ELSE BaselineDouble_sumLoop(queryEmbedding, docEmbedding, 1, DoubleZero)

\* Queries of at most MaxTokens tokens of dimension 1 or 2 with components
\* 0.0, 1.0 and 3 * 2^-54.
RepeatedQueries ==
  UNION {SeqUpTo([1..d -> {DoubleZero, DoubleOne, DoubleTiny}], MaxTokens)
         : d \in Dims}

\* Documents with whole components: none, the document of the test and
\* documents whose dot products with the queries are 1, 2 or more.
WholeDoc(doc) == [j \in 1..Len(doc) |->
                    [k \in 1..Len(doc[j]) |-> DoubleOf(doc[j][k], 0)]]
RepeatedDocs ==
  {WholeDoc(doc) : doc \in {<< >>, << <<1>> >>, << <<1>>, <<2>> >>,
                            << <<1, 0>>, <<0, 1>> >>, << <<1, 1>> >>,
                            << <<2, 1>>, <<0, 3>> >>}}

InitRepeated ==
  /\ query \in RepeatedQueries
  /\ docs \in [1..1 -> RepeatedDocs]
  /\ ret = NoCall
  /\ WasmConstructed
  /\ FlatUnused

\* The query with every token written twice in place, [a, b] -> [a, a, b, b]:
\* an order a caller may write, which no file of the repository builds.
RECURSIVE RepeatEach(_)
RepeatEach(q) ==
  IF q = << >> THEN << >>
  ELSE <<Head(q), Head(q)>> \o RepeatEach(Tail(q))

\* The query followed by itself, [a, b] -> [a, b, a, b]: the 4-token query
\* the tests write for a 2-token query.
RepeatWhole(q) == q \o q

\* The two orders in which every token of q occurs twice.
Duplicated(q) == {RepeatEach(q), RepeatWhole(q)}

\* maxsim(query, doc) of MaxSimBaseline; the score returned is a double.
CallMaxsimDouble ==
  /\ ret' = Returned("maxsim", "baseline", 1,
                     BaselineDouble_maxsim(query, docs[1]))
  /\ UNCHANGED <<query, docs, packing, threaded, inits, blocks, facade, wasmVars, flatVars, callVars>>

\* After maxsim(query, doc) the caller duplicates the tokens of the query
\* and calls maxsim(query4, doc) on the same instance.
CallMaxsimDuplicated ==
  \E query4 \in Duplicated(query) :
    /\ ret.op = "maxsim"
    /\ Len(query) <= MaxTokens
    /\ query' = query4
    /\ ret' = Returned("maxsim", "baseline", 1,
                       BaselineDouble_maxsim(query4, docs[1]))
    /\ UNCHANGED <<docs, packing, threaded, inits, blocks, facade, wasmVars, flatVars, callVars>>

NextRepeated ==
  \/ CallMaxsimDouble
  \/ CallMaxsimDuplicated

SpecRepeated == InitRepeated /\ [][NextRepeated]_vars

\* --------------------------- nested inputs and their flat form, side by side
\* flatTo2D: token i of the nested form is the dim floats of the flat array
\* from i * dim on.
flatTo2D(flat, numTokens, dim) ==
  [i \in 1..numTokens |-> [j \in 1..dim |-> flat[(i - 1) * dim + j]]]

\* The flat arrays of the callers, of a dimension of FlatDims: the queries of
\* one and two tokens, and the documents of no, one and two tokens.
FlatQueries == { <<1, 1>>, <<1, 1, 1, -1>>, <<-1, -1, 1, 1>> }
FlatDocs ==
  { << >>, <<1, 1>>, <<-1, -1>>, <<1, 1, -1, -1>>, <<-1, -1, 1, -1>>,
    <<-1, -1, -1, -1>> }

\* The documents' flat arrays copied one after another into docsFlat.
RECURSIVE ConcatFlat(_, _)
ConcatFlat(docsFlat_array, n) ==
  IF n = 0 THEN << >>
  ELSE ConcatFlat(docsFlat_array, n - 1) \o docsFlat_array[n]

\* The caller's flat buffers: the query's floats, the documents' floats
\* concatenated, and the token count of every document.
Flattened(queryFlat, docsFlat_array, embeddingDim) ==
  [query_flat |-> queryFlat,
   query_tokens |-> Len(queryFlat) \div embeddingDim,
   doc_flat |-> ConcatFlat(docsFlat_array, Len(docsFlat_array)),
   doc_tokens |-> [i \in 1..Len(docsFlat_array) |->
                     Len(docsFlat_array[i]) \div embeddingDim],
   embedding_dim |-> embeddingDim]

\* The floats of document i in the concatenated buffer.
FlatDocAt(b, i) ==
  LET off == Rust_total_tokens(SubSeq(b.doc_tokens, 1, i - 1)) * b.embedding_dim
  IN  SubSeq(b.doc_flat, off + 1, off + b.doc_tokens[i] * b.embedding_dim)

\* The nested query and documents made of the flat buffers b by flatTo2D.
Nested_query(b) == flatTo2D(b.query_flat, b.query_tokens, b.embedding_dim)
Nested_docs(b) ==
  [i \in 1..Len(b.doc_tokens) |->
     flatTo2D(FlatDocAt(b, i), b.doc_tokens[i], b.embedding_dim)]

\* maxsimFlat / maxsimFlat_normalized past the initialization check: the
\* buffers go to maxsim_single as they are.
Wasm_maxsimFlat(queryFlat, queryTokens, docFlat, docTokens, embeddingDim, normalized) ==
  IF normalized
  THEN Rust_maxsim_single_normalized(queryFlat, queryTokens, docFlat, docTokens,
                                     embeddingDim)
  ELSE Rust_maxsim_single(queryFlat, queryTokens, docFlat, docTokens,
                          embeddingDim)

\* Flat buffers of a non-empty query and of documents, and the same data
\* nested.
InitNestedFlat ==
  /\ \E queryFlat \in FlatQueries, docsFlat_array \in SeqUpTo(FlatDocs, MaxDocs),
        embeddingDim \in FlatDims :
       buffers = Flattened(queryFlat, docsFlat_array, embeddingDim)
  /\ query = Nested_query(buffers)
  /\ docs = Nested_docs(buffers)
  /\ blocks = NoBlocks
  /\ facade = NoFacade
  /\ inits = NoInits
  /\ threaded = NoThreaded
  /\ packing = NoPacking
  /\ corpus = NoCorpus
  /\ prev = NoPrev
  /\ NoCalls
  /\ ret = NoCall
  /\ WasmConstructed

\* MaxSimWasm.maxsimFlat on the query buffer and document i's floats.
WasmMaxsimFlat ==
  \E i \in 1..Len(buffers.doc_tokens) :
    /\ ret' = IF ~isInitialized
              THEN Threw("maxsimFlat", "wasm", i, NotInitializedMsg)
              ELSE Returned("maxsimFlat", "wasm", i,
                     Wasm_maxsimFlat(buffers.query_flat, buffers.query_tokens,
                                     FlatDocAt(buffers, i), buffers.doc_tokens[i],
                                     buffers.embedding_dim, FALSE))
    /\ UNCHANGED <<query, docs, packing, threaded, inits, blocks, facade, wasmVars, flatVars, callVars>>

\* MaxSimWasm.maxsimFlat_normalized on the same arguments.
WasmMaxsimFlatNormalized ==
  \E i \in 1..Len(buffers.doc_tokens) :
    /\ ret' = IF ~isInitialized
              THEN Threw("maxsimFlat_normalized", "wasm", i, NotInitializedMsg)
              ELSE Returned("maxsimFlat_normalized", "wasm", i,
                     Wasm_maxsimFlat(buffers.query_flat, buffers.query_tokens,
                                     FlatDocAt(buffers, i), buffers.doc_tokens[i],
                                     buffers.embedding_dim, TRUE))
    /\ UNCHANGED <<query, docs, packing, threaded, inits, blocks, facade, wasmVars, flatVars, callVars>>

NextNestedFlat ==
  \/ WasmInit
  \/ WasmMaxsim
  \/ WasmMaxsimNormalized
  \/ WasmMaxsimBatch
  \/ WasmMaxsimBatchNormalized
  \/ WasmMaxsimFlat
  \/ WasmMaxsimFlatNormalized
  \/ WasmMaxsimBatchFlat
  \/ WasmMaxsimBatchFlatNormalized

SpecNestedFlat == InitNestedFlat /\ [][NextNestedFlat]_vars

\* --------------------------------- init() in progress while methods are called
\* What maxsim_batch_zero_copy reads: the three arguments are byte offsets
\* inside JavaScript arrays, which the kernel takes as addresses in WASM
\* memory.  Whatever lies there decides: a trap, or one score per document
\* of any value (two values stand for them).
GarbageScores == {Num(0), Num(1)}

\* maxsimBatchHyperOptimized past the initialization check.
Wasm_maxsimBatchHyperOptimized(queryEmbedding, docEmbeddings) ==
  IF Len(queryEmbedding) = 0
  THEN {Threw("maxsimBatchHyperOptimized", "wasm", 0, UndefinedLengthMsg)}
  ELSE {Trapped("maxsimBatchHyperOptimized", "wasm")}
       \cup {ReturnedScores("maxsimBatchHyperOptimized", "wasm", sc)
             : sc \in [1..Len(docEmbeddings) -> GarbageScores]}

\* MaxSimWasm.maxsimBatchHyperOptimized(query, docs).
WasmMaxsimBatchHyperOptimized ==
  /\ IF ~isInitialized
     THEN ret' = Threw("maxsimBatchHyperOptimized", "wasm", 0, NotInitializedMsg)
     ELSE ret' \in Wasm_maxsimBatchHyperOptimized(query, docs)
  /\ UNCHANGED <<query, docs, packing, threaded, inits, blocks, facade, wasmVars, flatVars, callVars>>

\* The documents of this specification: one or two tokens, nested and flat.
AsyncDocs == { << <<1, 1>> >>, << <<-1, -1>>, <<1, -1>> >> }
FlatAsyncDocs == { <<1, 1>>, <<-1, -1, 1, -1>> }

\* Flat buffers of a non-empty query and up to MaxDocs documents, and the
\* same data nested, on a freshly constructed wrapper.
InitAsync ==
  /\ \E queryFlat \in FlatQueries, docsFlat_array \in SeqUpTo(FlatAsyncDocs, MaxDocs),
        embeddingDim \in FlatDims :
       buffers = Flattened(queryFlat, docsFlat_array, embeddingDim)
  /\ query = Nested_query(buffers)
  /\ docs = Nested_docs(buffers)
  /\ blocks = NoBlocks
  /\ facade = NoFacade
  /\ inits = NoInits
  /\ threaded = NoThreaded
  /\ packing = NoPacking
  /\ corpus = NoCorpus
  /\ prev = NoPrev
  /\ NoCalls
  /\ ret = NoCall
  /\ WasmConstructed

NextAsync ==
  \/ InitCallEnter
  \/ InitCallInstantiate
  \/ InitCallAttemptFails
  \/ InitCallRetry
  \/ InitCallResolve
  \/ WasmMaxsim
  \/ WasmMaxsimNormalized
  \/ WasmMaxsimBatch
  \/ WasmMaxsimBatchNormalized
  \/ WasmMaxsimBatchHyperOptimized
  \/ WasmMaxsimBatchZeroAlloc
  \/ WasmMaxsimFlat
  \/ WasmMaxsimFlatNormalized
  \/ WasmMaxsimBatchFlat
  \/ WasmMaxsimBatchFlatNormalized

SpecAsync == InitAsync /\ [][NextAsync]_vars

\* ----------------------------------- init() calls not awaiting one another
\* Several callers call init() on one MaxSimWasm object; each call is its own
\* async activation and is suspended at its own await.  The imported module
\* and its WebAssembly exports (the variable wasm of the bindings) are shared.
\* Variant of the catch block: no retry, the first failure rejects.
Init_catch_noRetry(k) == [k EXCEPT !.pc = "none", !.outcome = "rejected"]

\* The catch block of an attempt: wait and retry below maxRetries, else throw.
Init_catch(k) ==
  IF k.attempt < maxRetries THEN [k EXCEPT !.pc = "retryDelay"]
  ELSE [k EXCEPT !.pc = "none", !.outcome = "rejected"]

\* What the caller of init() holds once the call in k has settled or not.
Init_settled(c, k, r) ==
  IF k.outcome = "rejected" THEN Threw("init", "wasm", c, InitFailedMsg) ELSE r

\* Variant of the entry: no look at isInitialized.
Init_alreadyInitialized_never(initialized) == FALSE

\* if (this.isInitialized) return;
Init_alreadyInitialized(initialized) == initialized

\* init() is called by c: it returns at once when already initialized, else
\* attempt 1 starts and suspends at the import of the module.
RaceInitEnter(c) ==
  /\ inits.call[c].pc = "none"
  /\ IF Init_alreadyInitialized(isInitialized)
     THEN /\ inits' = [inits EXCEPT !.call[c] = [NoInitOf EXCEPT !.outcome = "resolved"],
                                    !.resolved = TRUE]
          /\ ret' = [Did("init", "wasm") EXCEPT !.idx = c]
     ELSE /\ inits' = [inits EXCEPT !.call[c] =
                         [pc |-> "import", attempt |-> 1, outcome |-> "none"]]
          /\ UNCHANGED ret
  /\ UNCHANGED <<query, docs, packing, threaded, blocks, facade, wasmVars, flatVars, callVars>>

\* The import resolves and wasmModule.default() is called: it returns the
\* exports at once when they are already set, else it fetches the binary.
RaceImportResolves(c) ==
  /\ inits.call[c].pc = "import"
  /\ inits' = [inits EXCEPT !.imported = TRUE,
                            !.call[c].pc = IF inits.wasm THEN "loaded" ELSE "fetch"]
  /\ UNCHANGED <<query, docs, packing, threaded, blocks, facade, ret, wasmVars, flatVars, callVars>>

\* The import rejects (the module has not been imported by anyone yet).
RaceImportRejects(c) ==
  /\ inits.call[c].pc = "import"
  /\ ~inits.imported
  /\ LET k == Init_catch(inits.call[c])
     IN  /\ inits' = [inits EXCEPT !.call[c] = k]
         /\ ret' = Init_settled(c, k, ret)
  /\ UNCHANGED <<query, docs, packing, threaded, blocks, facade, wasmVars, flatVars, callVars>>

\* The fetch and the instantiation of the binary succeed: __wbg_finalize_init
\* sets the exports.
RaceFetchResolves(c) ==
  /\ inits.call[c].pc = "fetch"
  /\ inits' = [inits EXCEPT !.wasm = TRUE, !.call[c].pc = "loaded"]
  /\ UNCHANGED <<query, docs, packing, threaded, blocks, facade, ret, wasmVars, flatVars, callVars>>

\* The fetch or the instantiation of the binary fails.
RaceFetchRejects(c) ==
  /\ inits.call[c].pc = "fetch"
  /\ LET k == Init_catch(inits.call[c])
     IN  /\ inits' = [inits EXCEPT !.call[c] = k]
         /\ ret' = Init_settled(c, k, ret)
  /\ UNCHANGED <<query, docs, packing, threaded, blocks, facade, wasmVars, flatVars, callVars>>

\* Variant: the instance is created and assigned, the flag is left for later.
RaceInstantiate_flagNotSet(c) ==
  /\ inits.call[c].pc = "loaded"
  /\ wasmInstance' = "instance"
  /\ inits' = [inits EXCEPT !.created = @ + 1, !.current = inits.created + 1,
                            !.call[c].pc = "isSupported"]
  /\ UNCHANGED <<query, docs, packing, threaded, blocks, facade, ret, isInitialized, docBuffer, initCall, flatVars, callVars>>

\* await wasmModule.default() resumes: a MaxSimWasm instance is created and
\* assigned, isInitialized is set, and the call suspends at isSupported().
RaceInstantiate(c) ==
  /\ inits.call[c].pc = "loaded"
  /\ wasmInstance' = "instance"
  /\ isInitialized' = TRUE
  /\ inits' = [inits EXCEPT !.created = @ + 1, !.current = inits.created + 1,
                            !.call[c].pc = "isSupported"]
  /\ UNCHANGED <<query, docs, packing, threaded, blocks, facade, ret, docBuffer, initCall, flatVars, callVars>>

\* isSupported() resolves: get_info() is read, the status logged, and the
\* call returns.
RaceResolve(c) ==
  /\ inits.call[c].pc = "isSupported"
  /\ inits' = [inits EXCEPT !.call[c].pc = "none", !.call[c].outcome = "resolved",
                            !.resolved = TRUE]
  /\ ret' = [Did("init", "wasm") EXCEPT !.idx = c]
  /\ UNCHANGED <<query, docs, packing, threaded, blocks, facade, wasmVars, flatVars, callVars>>

\* The retry delay elapses: the next attempt starts.
RaceRetry(c) ==
  /\ inits.call[c].pc = "retryDelay"
  /\ inits' = [inits EXCEPT !.call[c].pc = "import", !.call[c].attempt = @ + 1]
  /\ UNCHANGED <<query, docs, packing, threaded, blocks, facade, ret, wasmVars, flatVars, callVars>>

\* One query and one document, on a freshly constructed wrapper.
InitRace ==
  /\ query \in BatchQueries \ {<< >>}
  /\ docs \in [1..1 -> AsyncDocs]
  /\ buffers = NoFlat
  /\ blocks = NoBlocks
  /\ facade = NoFacade
  /\ inits = NoInits
  /\ threaded = NoThreaded
  /\ packing = NoPacking
  /\ corpus = NoCorpus
  /\ prev = NoPrev
  /\ NoCalls
  /\ ret = NoCall
  /\ WasmConstructed

\* A step of caller c's init() call.
RaceStep(c) ==
  \/ RaceImportResolves(c)
  \/ RaceImportRejects(c)
  \/ RaceFetchResolves(c)
  \/ RaceFetchRejects(c)
  \/ RaceInstantiate(c)
  \/ RaceResolve(c)
  \/ RaceRetry(c)

NextRace ==
  \/ \E c \in InitCallers : RaceInitEnter(c)
  \/ \E c \in InitCallers : RaceStep(c)
  \/ WasmMaxsim
  \/ WasmMaxsimBatch

SpecRace == InitRace /\ [][NextRace]_vars

\* Every promise an init() call awaits settles: the import, the fetch, the
\* timer of the retry delay, isSupported().
SpecRaceFair == SpecRace /\ \A c \in InitCallers : WF_vars(RaceStep(c))

\* ------------------------------------------------- MaxSim.create (index.js)
\* The backend options a caller passes: the four the code knows, and one it
\* does not.
BackendOptions == {"auto", "wasm", "js-optimized", "js-baseline", "webgpu"}

UnknownBackendMsg == "Unknown backend"

\* getInfo().backend of each implementation.
InfoBackend(impl) ==
  IF impl = "wasm" THEN "wasm-simd"
  ELSE IF impl = "optimized" THEN "js-optimized"
  ELSE "pure-js"

\* The tail of create: the implementation is wrapped and the instance
\* returned.
Create_wrap(f, implementation) ==
  [f EXCEPT !.pc = "done", !.impl = implementation,
            !.backend = InfoBackend(implementation)]

\* create ends by throwing: nothing is wrapped.
Create_reject(f) == [f EXCEPT !.pc = "rejected"]

\* Variant: the 'auto' branch does not catch the rejected init().
Create_initFailed_rethrow(f) == Create_reject(f)

\* What create does with a rejected init(): the 'auto' branch catches it and
\* falls back to the JS optimized backend, the 'wasm' branch lets it through.
Create_initFailed(f) ==
  IF f.option = "auto" THEN Create_wrap(f, "optimized")
  ELSE Create_reject(f)

\* MaxSim.create({backend}) is called: the JS backends are constructed and
\* wrapped at once, 'wasm' constructs the wrapper and awaits init(), 'auto'
\* awaits isSupported() first, and any other option throws.
CreateEnter ==
  \E backend \in BackendOptions :
    /\ facade = NoFacade
  /\ inits = NoInits
  /\ threaded = NoThreaded
  /\ packing = NoPacking
    /\ LET f == [facade EXCEPT !.option = backend]
       IN  \/ /\ backend = "auto"
              /\ facade' = [f EXCEPT !.pc = "isSupported"]
              /\ UNCHANGED <<ret, initCall>>
           \/ /\ backend = "wasm"
              /\ facade' = [f EXCEPT !.pc = "init"]
              /\ initCall' = [initCall EXCEPT !.pc = "import", !.attempt = 1]
              /\ UNCHANGED ret
           \/ /\ backend = "js-optimized"
              /\ facade' = Create_wrap(f, "optimized")
              /\ ret' = Did("create", "optimized")
              /\ UNCHANGED initCall
           \/ /\ backend = "js-baseline"
              /\ facade' = Create_wrap(f, "baseline")
              /\ ret' = Did("create", "baseline")
              /\ UNCHANGED initCall
           \/ /\ backend \notin {"auto", "wasm", "js-optimized", "js-baseline"}
              /\ facade' = Create_reject(f)
              /\ ret' = Threw("create", "none", 0, UnknownBackendMsg)
              /\ UNCHANGED initCall
    /\ UNCHANGED <<query, docs, packing, threaded, inits, blocks, isInitialized, wasmInstance, docBuffer, flatVars, callVars>>

\* 'auto': isSupported() resolves.  With SIMD the wrapper is constructed and
\* init() awaited; without, the JS optimized backend is wrapped.
CreateSupported ==
  \E simdSupported \in BOOLEAN :
    /\ facade.pc = "isSupported"
    /\ IF simdSupported
       THEN /\ facade' = [facade EXCEPT !.pc = "init", !.simd = "yes"]
            /\ initCall' = [initCall EXCEPT !.pc = "import", !.attempt = 1]
            /\ UNCHANGED ret
       ELSE /\ facade' = Create_wrap([facade EXCEPT !.simd = "no"], "optimized")
            /\ ret' = Did("create", "optimized")
            /\ UNCHANGED initCall
    /\ UNCHANGED <<query, docs, packing, threaded, inits, blocks, isInitialized, wasmInstance, docBuffer, flatVars, callVars>>

\* The awaited init() has settled: resolved, the WASM wrapper is wrapped;
\* rejected, see Create_initFailed.
CreateInitSettled ==
  /\ facade.pc = "init"
  /\ initCall.pc = "none"
  /\ IF initCall.resolved
     THEN /\ facade' = Create_wrap(facade, "wasm")
          /\ ret' = Did("create", "wasm")
     ELSE /\ facade' = Create_initFailed(facade)
          /\ ret' = IF facade'.pc = "rejected"
                    THEN Threw("create", "wasm", 0, InitFailedMsg)
                    ELSE Did("create", facade'.impl)
  /\ UNCHANGED <<query, docs, packing, threaded, inits, blocks, wasmVars, flatVars, callVars>>

\* instance.maxsim(query, docs[i]): delegated to the wrapped implementation.
FacadeMaxsim ==
  \E i \in 1..Len(docs) :
    /\ facade.pc = "done"
    /\ ret' = IF facade.impl = "wasm"
              THEN (IF ~isInitialized THEN Threw("maxsim", "wasm", i, NotInitializedMsg)
                    ELSE Returned("maxsim", "wasm", i, Wasm_maxsim(query, docs[i], FALSE)))
              ELSE Returned("maxsim", facade.impl, i,
                            maxsimOf(facade.impl, query, docs[i], FALSE))
    /\ UNCHANGED <<query, docs, packing, threaded, inits, blocks, facade, wasmVars, flatVars, callVars>>

\* instance.maxsimBatch(query, docs): delegated to the wrapped implementation.
FacadeMaxsimBatch ==
  /\ facade.pc = "done"
  /\ ret' = IF facade.impl = "wasm"
            THEN (IF ~isInitialized
                  THEN Threw("maxsimBatch", "wasm", 0, NotInitializedMsg)
                  ELSE ReturnedScores("maxsimBatch", "wasm",
                                      Wasm_maxsimBatch(query, docs, FALSE)))
            ELSE ReturnedScores("maxsimBatch", facade.impl,
                                maxsimBatchOf(facade.impl, query, docs, FALSE))
  /\ UNCHANGED <<query, docs, packing, threaded, inits, blocks, facade, wasmVars, flatVars, callVars>>

\* A query and up to MaxDocs documents; no instance created yet.
InitCreate ==
  /\ query \in BatchQueries
  /\ docs \in SeqUpTo(AsyncDocs, MaxDocs)
  /\ ret = NoCall
  /\ WasmConstructed
  /\ FlatUnused

NextCreate ==
  \/ CreateEnter
  \/ CreateSupported
  \/ InitCallInstantiate
  \/ InitCallAttemptFails
  \/ InitCallRetry
  \/ InitCallResolve
  \/ CreateInitSettled
  \/ FacadeMaxsim
  \/ FacadeMaxsimBatch

SpecCreate == InitCreate /\ [][NextCreate]_vars

\* ------------------------------------ the cache-blocked kernel (Rust, lib.rs)
\* The Rust source is not among the sources.  The traversal follows section
\* 4.2 of the specification and the loop nest quoted in the optimization
\* notes: query tokens in blocks of q_block_size, inside each the document
\* tokens in blocks of d_block_size, a running maximum per query token.

\* d_block_size, chosen from the document length.
Rust_d_block_size(doc_tokens) ==
  IF doc_tokens <= 128 THEN 16
  ELSE IF doc_tokens <= 256 THEN 12
  ELSE IF doc_tokens <= 512 THEN 8
  ELSE IF doc_tokens <= 1024 THEN 6
  ELSE 4

Rust_q_block_size == 8

Rust_min(a, b) == IF a <= b THEN a ELSE b

\* Mutant: a block starts its maxima afresh.
Rust_process_block_resetMax(max_sims, query_flat, doc_flat, embedding_dim, q_lo, q_hi, d_lo, d_hi) ==
  [q \in 1..Len(max_sims) |->
     IF q >= q_lo /\ q <= q_hi
     THEN Rust_max_sim(query_flat, q, doc_flat, (d_lo - 1) * embedding_dim,
                       d_hi - d_lo + 1, embedding_dim, NegInf)
     ELSE max_sims[q]]

\* One block: the maxima of query tokens q_lo..q_hi raised by their dot
\* products with document tokens d_lo..d_hi.
Rust_process_block(max_sims, query_flat, doc_flat, embedding_dim, q_lo, q_hi, d_lo, d_hi) ==
  [q \in 1..Len(max_sims) |->
     IF q >= q_lo /\ q <= q_hi
     THEN Rust_max_sim(query_flat, q, doc_flat, (d_lo - 1) * embedding_dim,
                       d_hi - d_lo + 1, embedding_dim, max_sims[q])
     ELSE max_sims[q]]

\* The block the traversal is at, processed.
Rust_block_done(b, t) ==
  Rust_process_block(t.max_sims, b.query_flat, b.doc_flat, b.embedding_dim,
                     t.q_block, Rust_min(t.q_block + t.q - 1, b.query_tokens),
                     t.d_block, Rust_min(t.d_block + t.d - 1, b.doc_tokens[1]))

\* The step_by loops: the next document block of the same query block, else
\* the first document block of the next query block, else the loops are over.
Rust_next_block(b, t) ==
  IF t.d_block + t.d <= b.doc_tokens[1]
  THEN [t EXCEPT !.d_block = @ + t.d]
  ELSE IF t.q_block + t.q <= b.query_tokens
  THEN [t EXCEPT !.q_block = @ + t.q, !.d_block = 1]
  ELSE [t EXCEPT !.pc = "sum"]

\* The maxima before any block: one -Infinity per query token.
Rust_neg_infinities(query_tokens) == [q \in 1..query_tokens |-> NegInf]

RECURSIVE Rust_sum(_, _)
Rust_sum(max_sims, n) ==
  IF n = 0 THEN 0 ELSE Rust_sum(max_sims, n - 1) + max_sims[n]

\* Token counts of the blocked kernel's inputs.
BlockQueryTokens == (0..MaxBlockTokens) \cup {LongQueryTokens}
BlockDocTokens == (0..MaxBlockTokens) \cup {LongDocTokens}

\* Block sizes traversed with: the kernel's own, and 1 .. MaxBlockTokens,
\* which cut the short inputs into several and into uneven blocks.
QBlockSizes == (1..MaxBlockTokens) \cup {Rust_q_block_size}
DBlockSizes(doc_tokens) == (1..MaxBlockTokens) \cup {Rust_d_block_size(doc_tokens)}

\* One query and one document as flat buffers of dimension 2, and the block
\* sizes of the traversal.
InitBlocked ==
  /\ query = << >>
  /\ docs = << >>
  /\ \E query_tokens \in BlockQueryTokens, doc_tokens \in BlockDocTokens :
       \E query_flat \in FlatBuffers(query_tokens * 2),
          doc_flat \in FlatBuffers(doc_tokens * 2) :
         /\ buffers = [query_flat |-> query_flat, query_tokens |-> query_tokens,
                       doc_flat |-> doc_flat, doc_tokens |-> <<doc_tokens>>,
                       embedding_dim |-> 2]
         /\ \E q \in QBlockSizes, d \in DBlockSizes(doc_tokens) :
              blocks = [NoBlocks EXCEPT !.q = q, !.d = d]
  /\ facade = NoFacade
  /\ inits = NoInits
  /\ threaded = NoThreaded
  /\ packing = NoPacking
  /\ corpus = NoCorpus
  /\ prev = NoPrev
  /\ NoCalls
  /\ ret = NoCall
  /\ WasmConstructed

\* The blocked kernel is called: 0 at once when the query or the document is
\* empty, else the maxima are set to -Infinity and the first block is next.
KernelBlockedEnter(op, normalized) ==
  /\ blocks.pc = "idle"
  /\ IF buffers.query_tokens = 0 \/ buffers.doc_tokens[1] = 0
     THEN /\ ret' = Returned(op, "wasm", 1, Num(0))
          /\ UNCHANGED blocks
     ELSE /\ blocks' = [blocks EXCEPT !.pc = "block", !.q_block = 1, !.d_block = 1,
                                      !.max_sims = Rust_neg_infinities(buffers.query_tokens),
                                      !.normalized = normalized]
          /\ UNCHANGED ret
  /\ UNCHANGED <<query, docs, packing, threaded, inits, facade, wasmVars, flatVars, callVars>>

\* The blocked kernel called for the raw score.
KernelMaxsimBlocked == KernelBlockedEnter("maxsim_blocked", FALSE)

\* The blocked kernel called for the normalized score.
KernelMaxsimBlockedNormalized == KernelBlockedEnter("maxsim_blocked_normalized", TRUE)

\* One block of the similarity matrix is processed and the loops advance.
KernelBlockStep ==
  /\ blocks.pc = "block"
  /\ blocks' = Rust_next_block(buffers, [blocks EXCEPT !.max_sims = Rust_block_done(buffers, blocks)])
  /\ UNCHANGED <<query, docs, packing, threaded, inits, facade, ret, wasmVars, flatVars, callVars>>

\* After the last block: the maxima are summed, the sum divided by
\* query_tokens when normalized, and the score returned.
KernelBlockedReturn ==
  /\ blocks.pc = "sum"
  /\ LET sum == Rust_sum(blocks.max_sims, buffers.query_tokens)
     IN  ret' = IF blocks.normalized
                THEN Returned("maxsim_blocked_normalized", "wasm", 1,
                              Quot(sum, buffers.query_tokens))
                ELSE Returned("maxsim_blocked", "wasm", 1, Num(sum))
  /\ blocks' = [NoBlocks EXCEPT !.q = blocks.q, !.d = blocks.d]
  /\ UNCHANGED <<query, docs, packing, threaded, inits, facade, wasmVars, flatVars, callVars>>

NextBlocked ==
  \/ KernelMaxsimBlocked
  \/ KernelMaxsimBlockedNormalized
  \/ KernelBlockStep
  \/ KernelBlockedReturn

SpecBlocked == InitBlocked /\ [][NextBlocked]_vars

\* ------------------------------------- the preloaded corpus (Rust, lib.rs)
\* The documents a successful load stores.
Rust_loaded(embeddings_data, doc_tokens, embedding_dim) ==
  [loaded |-> TRUE, embeddings_flat |-> embeddings_data,
   doc_tokens |-> doc_tokens, embedding_dim |-> embedding_dim]

\* What a refused load may leave stored: the documents as they were, or
\* none (the refusal invalidates the corpus).  Which of the two the kernel
\* does is not in the sources, so both are enumerated.
Rust_load_refused(documents) == {documents, NoCorpus}

\* load_documents: the buffer length is checked against the token counts; a
\* mismatch is an error, a match replaces the stored documents whole.  The
\* field documents is the set of documents the call may leave stored.
\* Mutant: nothing is checked, every load is stored.
Rust_load_documents_unchecked(documents, embeddings_data, doc_tokens, embedding_dim) ==
  [ok |-> TRUE,
   documents |-> {Rust_loaded(embeddings_data, doc_tokens, embedding_dim)}]

\* Mutant: a load of the dimension already stored is appended to the
\* stored documents.
Rust_load_documents_append(documents, embeddings_data, doc_tokens, embedding_dim) ==
  IF Len(embeddings_data) # Rust_total_tokens(doc_tokens) * embedding_dim
  THEN [ok |-> FALSE, documents |-> Rust_load_refused(documents)]
  ELSE [ok |-> TRUE,
        documents |->
          {IF documents.loaded /\ documents.embedding_dim = embedding_dim
           THEN [loaded |-> TRUE,
                 embeddings_flat |-> documents.embeddings_flat \o embeddings_data,
                 doc_tokens |-> documents.doc_tokens \o doc_tokens,
                 embedding_dim |-> embedding_dim]
           ELSE Rust_loaded(embeddings_data, doc_tokens, embedding_dim)}]

Rust_load_documents(documents, embeddings_data, doc_tokens, embedding_dim) ==
  IF Len(embeddings_data) # Rust_total_tokens(doc_tokens) * embedding_dim
  THEN [ok |-> FALSE, documents |-> Rust_load_refused(documents)]
  ELSE [ok |-> TRUE,
        documents |-> {Rust_loaded(embeddings_data, doc_tokens, embedding_dim)}]

LoadMismatchMsg == "Embedding data length does not match sum(doc_tokens) * embedding_dim"

\* num_documents_loaded: the number of stored documents, 0 before any load.
Rust_num_documents_loaded(documents) ==
  IF documents.loaded THEN Len(documents.doc_tokens) ELSE 0

\* search_preloaded on stored documents: maxsim_batch_impl over the stored
\* buffer, token counts and dimension, not normalized and not sorted.
Rust_search_preloaded(documents, query_flat, query_tokens) ==
  Rust_maxsim_batch_impl(query_flat, query_tokens, documents.embeddings_flat,
                         documents.doc_tokens, documents.embedding_dim,
                         FALSE, FALSE)

NoDocumentsMsg == "No documents loaded"

\* The binding of search_preloaded: the score array, or the error the
\* kernel returned.  Before any load the kernel's source decides between an
\* error and an empty array.
Binding_search_preloaded(documents, query_flat, query_tokens) ==
  IF documents.loaded
  THEN {ReturnedScores("search_preloaded", "wasm",
                       Rust_search_preloaded(documents, query_flat, query_tokens))}
  ELSE {Threw("search_preloaded", "wasm", 0, NoDocumentsMsg),
        ReturnedScores("search_preloaded", "wasm", << >>)}

\* The queries enumerated against stored documents: up to MaxTokens tokens
\* of the stored dimension (of every dimension before any load).
SearchQueries(documents) ==
  UNION {{[query_flat |-> q, query_tokens |-> query_tokens]
          : q \in FlatBuffers(query_tokens * d)}
         : query_tokens \in 0..MaxTokens,
           d \in (IF documents.loaded THEN {documents.embedding_dim} ELSE FlatDims)}

\* A WASM instance (MaxSimWasm of the bindings) exists once init() succeeded.
InitPreload ==
  /\ query = << >>
  /\ docs = << >>
  /\ ret = NoCall
  /\ WasmConstructed
  /\ FlatUnused

\* A method called on a MaxSimWasm object after free(): __wbg_ptr is 0 and
\* the export, handed the pointer 0, throws.
Binding_freed(op) == Threw(op, "wasm", 0, "null pointer passed to rust")

\* wasmInstance.free() (also [Symbol.dispose]), called while no caller is
\* inside a method: __wbg_ptr is set to 0 and the kernel instance is released
\* with the documents it stored.  The flag isInitialized of the wrapper is
\* not touched.  A second free() hands the pointer 0 to the export, which
\* returns or throws.
Free ==
  /\ \A u \in Callers : calls[u].op = "none"
  /\ \/ /\ wasmInstance = "instance"
        /\ wasmInstance' = "freed"
        /\ corpus' = NoCorpus
        /\ ret' = Did("free", "wasm")
     \/ /\ wasmInstance = "freed"
        /\ ret' \in {Did("free", "wasm"), Binding_freed("free")}
        /\ UNCHANGED <<wasmInstance, corpus>>
  /\ prev' = [num |-> Rust_num_documents_loaded(corpus)]
  /\ UNCHANGED <<query, docs, packing, threaded, inits, blocks, facade, isInitialized, docBuffer, initCall, buffers, callVars>>

\* wasmInstance.load_documents(embeddings_data, doc_tokens, embedding_dim).
LoadDocuments ==
  /\ wasmInstance \in {"instance", "freed"}
  /\ \E doc_tokens \in CorpusTokenCounts, embedding_dim \in FlatDims :
         \E embeddings_data \in
              LoadBuffers(Rust_total_tokens(doc_tokens) * embedding_dim) :
           LET r == Rust_load_documents(corpus, embeddings_data, doc_tokens,
                                        embedding_dim)
           IN  /\ buffers' = [query_flat |-> << >>, query_tokens |-> 0,
                              doc_flat |-> embeddings_data,
                              doc_tokens |-> doc_tokens,
                              embedding_dim |-> embedding_dim]
               /\ corpus' \in IF wasmInstance = "freed" THEN {corpus}
                               ELSE r.documents
               /\ ret' = IF wasmInstance = "freed"
                         THEN Binding_freed("load_documents")
                         ELSE IF r.ok THEN Did("load_documents", "wasm")
                         ELSE Threw("load_documents", "wasm", 0, LoadMismatchMsg)
  /\ prev' = [num |-> Rust_num_documents_loaded(corpus)]
  /\ UNCHANGED <<query, docs, packing, threaded, inits, blocks, facade, wasmVars, callVars>>

\* wasmInstance.search_preloaded(query_flat, query_tokens).  The stored
\* documents are lent to maxsim_batch_impl by shared reference and stay as
\* they are; the scratch memory of the kernel is not represented.
SearchPreloaded ==
  /\ wasmInstance \in {"instance", "freed"}
  /\ \E q \in SearchQueries(corpus) :
       /\ buffers' = [query_flat |-> q.query_flat, query_tokens |-> q.query_tokens,
                      doc_flat |-> << >>, doc_tokens |-> << >>,
                      embedding_dim |-> 0]
       /\ ret' \in IF wasmInstance = "freed"
                   THEN {Binding_freed("search_preloaded")}
                   ELSE Binding_search_preloaded(corpus, q.query_flat,
                                                 q.query_tokens)
  /\ UNCHANGED corpus
  /\ prev' = [num |-> Rust_num_documents_loaded(corpus)]
  /\ UNCHANGED <<query, docs, packing, threaded, inits, blocks, facade, wasmVars, callVars>>

\* wasmInstance.num_documents_loaded().
NumDocumentsLoaded ==
  /\ wasmInstance \in {"instance", "freed"}
  /\ ret' = IF wasmInstance = "freed"
            THEN Binding_freed("num_documents_loaded")
            ELSE Returned("num_documents_loaded", "wasm", 0,
                          Num(Rust_num_documents_loaded(corpus)))
  /\ prev' = [num |-> Rust_num_documents_loaded(corpus)]
  /\ UNCHANGED <<query, docs, packing, threaded, inits, blocks, facade, wasmVars, buffers, corpus, callVars>>

NextPreload ==
  \/ WasmInit
  \/ Free
  \/ LoadDocuments
  \/ SearchPreloaded
  \/ NumDocumentsLoaded

SpecPreload == InitPreload /\ [][NextPreload]_vars

\* ------------------------------- callers sharing one corpus (JS + bindings)
\* Two callers (async tasks of the one JavaScript thread) use one WASM
\* instance.  load_documents and search_preloaded of the bindings are
\* synchronous functions: arguments copied in, the wasm export called, the
\* result read, with no await between.  Inside the export the kernel stores
\* or reads the documents field by field.

\* The loads the callers make: two corpora of three tokens that differ in
\* token counts and in data, and a buffer one float short.
SharedLoads ==
  { [query_flat |-> << >>, query_tokens |-> 0,
     doc_flat |-> [k \in 1..6 |-> PatternAt(1, k)],
     doc_tokens |-> <<1, 2>>, embedding_dim |-> 2],
    [query_flat |-> << >>, query_tokens |-> 0,
     doc_flat |-> [k \in 1..6 |-> PatternAt(2, k)],
     doc_tokens |-> <<2, 1>>, embedding_dim |-> 2],
    [query_flat |-> << >>, query_tokens |-> 0,
     doc_flat |-> [k \in 1..5 |-> PatternAt(1, k)],
     doc_tokens |-> <<2, 1>>, embedding_dim |-> 2] }

\* The queries the callers search with: one token of dimension 2.
SharedQueries ==
  { [query_flat |-> q, query_tokens |-> 1, doc_flat |-> << >>,
     doc_tokens |-> << >>, embedding_dim |-> 0] : q \in FlatBuffers(2) }

\* Mutant: callers run in parallel, each free to start a call whenever it
\* is not inside one itself.
ThreadFree_parallel(t) == calls[t].op = "none"

\* The JavaScript thread runs one synchronous call at a time: caller t can
\* enter a binding only while no caller is inside one.
ThreadFree(t) == \A u \in Callers : calls[u].op = "none"

\* load_documents entered: the arguments are copied into wasm memory.
LoadEnter(t) ==
  /\ wasmInstance = "instance"
  /\ ThreadFree(t)
  /\ \E a \in SharedLoads :
       calls' = [calls EXCEPT ![t] =
                   [op |-> "load_documents", pc |-> "validate", args |-> a,
                    seen |-> NoCorpus]]
  /\ UNCHANGED <<query, docs, packing, threaded, inits, blocks, facade, ret, wasmVars, flatVars, completed>>

\* load_documents or search_preloaded called by caller t after free(): the
\* export throws on the pointer 0 before it reads or stores any document.
CallFreed(t) ==
  /\ wasmInstance = "freed"
  /\ ThreadFree(t)
  /\ \E op \in {"load_documents", "search_preloaded"} :
       ret' = Binding_freed(op)
  /\ UNCHANGED <<query, docs, packing, threaded, inits, blocks, facade, wasmVars, flatVars, callVars>>

\* Inside the export: the length check of load_documents.  A refused load
\* leaves the stored documents or drops them.
LoadValidate(t) ==
  /\ calls[t].op = "load_documents"
  /\ calls[t].pc = "validate"
  /\ LET a == calls[t].args
         r == Rust_load_documents(corpus, a.doc_flat, a.doc_tokens, a.embedding_dim)
     IN  /\ calls' = [calls EXCEPT ![t].pc = IF r.ok THEN "store_flat" ELSE "throw"]
         /\ corpus' \in IF r.ok THEN {corpus} ELSE r.documents
  /\ UNCHANGED <<query, docs, packing, threaded, inits, blocks, facade, ret, wasmVars, buffers, prev, completed>>

\* Inside the export: the new buffer replaces the stored one.
LoadStoreFlat(t) ==
  /\ calls[t].op = "load_documents"
  /\ calls[t].pc = "store_flat"
  /\ LET a == calls[t].args
     IN  corpus' = [corpus EXCEPT !.loaded = TRUE,
                                  !.embeddings_flat = a.doc_flat]
  /\ calls' = [calls EXCEPT ![t].pc = "store_tokens"]
  /\ UNCHANGED <<query, docs, packing, threaded, inits, blocks, facade, ret, wasmVars, buffers, prev, completed>>

\* Inside the export: the new token counts and dimension replace the stored.
LoadStoreTokens(t) ==
  /\ calls[t].op = "load_documents"
  /\ calls[t].pc = "store_tokens"
  /\ LET a == calls[t].args
     IN  corpus' = [corpus EXCEPT !.doc_tokens = a.doc_tokens,
                                  !.embedding_dim = a.embedding_dim]
  /\ calls' = [calls EXCEPT ![t].pc = "return"]
  /\ UNCHANGED <<query, docs, packing, threaded, inits, blocks, facade, ret, wasmVars, buffers, prev, completed>>

\* load_documents returns, or throws what the export returned.
LoadReturn(t) ==
  /\ calls[t].op = "load_documents"
  /\ calls[t].pc \in {"return", "throw"}
  /\ ret' = IF calls[t].pc = "return" THEN Did("load_documents", "wasm")
            ELSE Threw("load_documents", "wasm", 0, LoadMismatchMsg)
  /\ completed' = IF calls[t].pc = "return" THEN completed \cup {corpus}
                  ELSE completed
  /\ calls' = [calls EXCEPT ![t] = Idle]
  /\ UNCHANGED <<query, docs, packing, threaded, inits, blocks, facade, wasmVars, flatVars>>

\* search_preloaded entered: the query is copied into wasm memory.
SearchEnter(t) ==
  /\ wasmInstance = "instance"
  /\ ThreadFree(t)
  /\ \E a \in SharedQueries :
       calls' = [calls EXCEPT ![t] =
                   [op |-> "search_preloaded", pc |-> "read_tokens", args |-> a,
                    seen |-> NoCorpus]]
  /\ UNCHANGED <<query, docs, packing, threaded, inits, blocks, facade, ret, wasmVars, flatVars, completed>>

\* Inside the export: the stored token counts and dimension are read.
SearchReadTokens(t) ==
  /\ calls[t].op = "search_preloaded"
  /\ calls[t].pc = "read_tokens"
  /\ calls' = [calls EXCEPT ![t].pc = "read_flat",
                            ![t].seen = [corpus EXCEPT !.embeddings_flat = << >>]]
  /\ UNCHANGED <<query, docs, packing, threaded, inits, blocks, facade, ret, wasmVars, flatVars, completed>>

\* Inside the export: the stored buffer is read.
SearchReadFlat(t) ==
  /\ calls[t].op = "search_preloaded"
  /\ calls[t].pc = "read_flat"
  /\ calls' = [calls EXCEPT ![t].pc = "return",
                            ![t].seen.embeddings_flat = corpus.embeddings_flat]
  /\ UNCHANGED <<query, docs, packing, threaded, inits, blocks, facade, ret, wasmVars, flatVars, completed>>

\* The documents a search read are scored as stored documents when they are
\* well-formed, and end in a trap when the token counts run past the buffer.
SearchOutcome(seen, a) ==
  IF seen.loaded /\ Rust_total_tokens(seen.doc_tokens) * seen.embedding_dim
                      > Len(seen.embeddings_flat)
  THEN {Trapped("search_preloaded", "wasm")}
  ELSE Binding_search_preloaded(seen, a.query_flat, a.query_tokens)

\* search_preloaded returns the scores of what it read.
SearchReturn(t) ==
  /\ calls[t].op = "search_preloaded"
  /\ calls[t].pc = "return"
  /\ ret' \in SearchOutcome(calls[t].seen, calls[t].args)
  /\ calls' = [calls EXCEPT ![t].op = "none", ![t].pc = "none"]
  /\ UNCHANGED <<query, docs, packing, threaded, inits, blocks, facade, wasmVars, flatVars, completed>>

NextShared ==
  \/ WasmInit
  \/ Free
  \/ \E t \in Callers :
       \/ LoadEnter(t)
       \/ LoadValidate(t)
       \/ LoadStoreFlat(t)
       \/ LoadStoreTokens(t)
       \/ LoadReturn(t)
       \/ SearchEnter(t)
       \/ SearchReadTokens(t)
       \/ SearchReadFlat(t)
       \/ SearchReturn(t)
       \/ CallFreed(t)

SpecShared == InitPreload /\ [][NextShared]_vars

\* ------------------------- the persistent buffer of maxsimBatchZeroAlloc
\* Shapes of large inputs: query tokens, dimensions and tokens per document.
QueryTokenCounts == {1, 32}
EmbeddingDims == {128, 1024}
DocTokenCounts == {0, 1, 512, 51200}

\* Float32Array.prototype.set with a source that does not fit at the offset.
RangeErrorMsg == "RangeError: offset is out of bounds"

\* if (!this.docBuffer || this.docBuffer.length < totalSize)
Wasm_resizes(length, totalSize) == length = 0 \/ length < totalSize

\* docTokenCounts.reduce over the documents: sum + doc.length * embeddingDim.
RECURSIVE Wasm_docSizeOfCounts(_, _, _)
Wasm_docSizeOfCounts(docTokenCounts, numDocs, embeddingDim) ==
  IF numDocs = 0 THEN 0
  ELSE Wasm_docSizeOfCounts(docTokenCounts, numDocs - 1, embeddingDim)
       + docTokenCounts[numDocs] * embeddingDim

\* How packing ends on a buffer of the given length: every element stored;
\* or, the buffer being shorter than the data, set() throwing on a
\* Float32Array token that does not fit, or the stores past the end of the
\* buffer having no effect.
Wasm_packingOutcome(length, totalSize, typed) ==
  IF totalSize <= length THEN "packed"
  ELSE IF typed THEN "RangeError"
  ELSE "dropped"

\* maxsimBatchZeroAlloc on an initialized wrapper up to the end of packing,
\* on inputs given by their shape: the sizes are computed, the buffer is
\* resized when it is missing or too short, and the query and every document
\* token are written at offsets 0, embeddingDim, 2 * embeddingDim, ... The
\* shapes carry no data, so no scores; the call throws when set() does.
ZeroAllocPack ==
  /\ isInitialized
  /\ \E queryTokens \in QueryTokenCounts, embeddingDim \in EmbeddingDims,
        docTokenCounts \in SeqUpTo(DocTokenCounts, MaxDocs), typed \in BOOLEAN :
       LET querySize == queryTokens * embeddingDim
           docSize == Wasm_docSizeOfCounts(docTokenCounts, Len(docTokenCounts),
                                           embeddingDim)
           totalSize == querySize + docSize
           length == Wasm_resizedBuffer(docBuffer, totalSize)
           outcome == Wasm_packingOutcome(length, totalSize, typed)
           \* set() throws at the first token that does not fit: offset is
           \* not advanced past it.
           offset == IF outcome = "RangeError"
                     THEN (length \div embeddingDim) * embeddingDim
                     ELSE totalSize
       IN  /\ docBuffer' = length
           /\ packing' = [NoPacking EXCEPT !.queryTokens = queryTokens,
                                           !.embeddingDim = embeddingDim,
                                           !.docTokenCounts = docTokenCounts,
                                           !.typed = typed,
                                           !.totalSize = totalSize,
                                           !.offset = offset,
                                           !.outcome = outcome]
           /\ ret' = IF outcome = "RangeError"
                     THEN Threw("maxsimBatchZeroAlloc", "wasm", 0, RangeErrorMsg)
                     ELSE ret
  /\ UNCHANGED <<query, docs, threaded, inits, blocks, facade, isInitialized, wasmInstance, initCall, flatVars, callVars>>

\* A freshly constructed wrapper; the shapes are chosen call by call.
InitPacking ==
  /\ query = << >>
  /\ docs = << >>
  /\ ret = NoCall
  /\ WasmConstructed
  /\ FlatUnused

NextPacking ==
  \/ WasmInit
  \/ ZeroAllocPack

SpecPacking == InitPacking /\ [][NextPacking]_vars

\* The documents of a call: the first n of the caller's documents.
DocumentsOf(documents, n) == SubSeq(documents, 1, n)

\* Mutant: what the buffer held is not overwritten.
Wasm_written_stale(content, packed) ==
  content \o SubSeq(packed, Len(content) + 1, Len(packed))

\* The buffer's floats after packed is written at its start: what lay past
\* the written part stays.
Wasm_written(content, packed) ==
  packed \o SubSeq(content, Len(packed) + 1, Len(content))

\* this.docBuffer.subarray(begin, end), on the part of the buffer written
\* so far.
Wasm_subarray(content, begin, end) == SubSeq(content, begin + 1, end)

\* maxsimBatchZeroAlloc past the initialization check, on the buffer's
\* floats: the persistent buffer is kept, or replaced by a new one of zeros
\* when it is missing or too short; the query and the documents are written
\* from its start; maxsim_batch is given the views [0, querySize) and
\* [docStart, offset) of it.
Wasm_maxsimBatchZeroAllocOnBuffer(queryEmbedding, docEmbeddings, length, content) ==
  IF Len(queryEmbedding) = 0
  THEN [ret |-> Threw("maxsimBatchZeroAlloc", "wasm", 0, UndefinedLengthMsg),
        docBuffer |-> length, content |-> content]
  ELSE
    LET queryTokens == Len(queryEmbedding)
        embeddingDim == Len(queryEmbedding[1])
        numDocs == Len(docEmbeddings)
        querySize == queryTokens * embeddingDim
        docSize == Wasm_docSize(docEmbeddings, numDocs, embeddingDim)
        totalSize == querySize + docSize
        kept == IF Wasm_resizes(length, totalSize) THEN << >> ELSE content
        docTokenCounts == [i \in 1..numDocs |-> Len(docEmbeddings[i])]
        packed == Wasm_packTokens(queryEmbedding, queryTokens, embeddingDim)
                  \o Wasm_packDocs(docEmbeddings, numDocs, embeddingDim)
        after == Wasm_written(kept, packed)
        docStart == querySize
        offset == Len(packed)
    IN  [ret |-> ReturnedScores("maxsimBatchZeroAlloc", "wasm",
                   Rust_maxsim_batch(Wasm_subarray(after, 0, querySize), queryTokens,
                                     Wasm_subarray(after, docStart, offset),
                                     docTokenCounts, embeddingDim)),
         docBuffer |-> Wasm_resizedBuffer(length, totalSize),
         content |-> after]

\* maxsimBatchZeroAlloc called on the first k tokens of the query and the
\* first n documents, whatever earlier calls left in the buffer.
WasmZeroAllocOnBuffer ==
  /\ \E k \in 0..Len(query), n \in 0..Len(docs) :
       LET queryEmbedding == SubSeq(query, 1, k)
           called == [packing EXCEPT !.query = queryEmbedding, !.n = n]
       IN  IF ~isInitialized
           THEN /\ ret' = Threw("maxsimBatchZeroAlloc", "wasm", 0, NotInitializedMsg)
                /\ packing' = called
                /\ UNCHANGED docBuffer
           ELSE LET out == Wasm_maxsimBatchZeroAllocOnBuffer(
                             queryEmbedding, DocumentsOf(docs, n), docBuffer,
                             packing.content)
                IN  /\ ret' = out.ret
                    /\ docBuffer' = out.docBuffer
                    /\ packing' = [called EXCEPT !.content = out.content]
  /\ UNCHANGED <<query, docs, threaded, inits, blocks, facade, isInitialized, wasmInstance, initCall, flatVars, callVars>>

\* maxsimBatch on the inputs of the last maxsimBatchZeroAlloc call.
WasmMaxsimBatchSame ==
  /\ ret.op = "maxsimBatchZeroAlloc"
  /\ ret' = IF ~isInitialized THEN Threw("maxsimBatch", "wasm", 0, NotInitializedMsg)
            ELSE ReturnedScores("maxsimBatch", "wasm",
                   Wasm_maxsimBatch(packing.query, DocumentsOf(docs, packing.n), FALSE))
  /\ UNCHANGED <<query, docs, packing, threaded, inits, blocks, facade, wasmVars, flatVars, callVars>>

\* A query of two tokens, up to MaxDocs documents and a freshly constructed
\* wrapper.
InitBuffer ==
  /\ query \in {q \in BatchQueries : Len(q) = 2}
  /\ docs \in SeqUpTo(BatchDocs, MaxDocs)
  /\ ret = NoCall
  /\ WasmConstructed
  /\ FlatUnused

NextBuffer ==
  \/ WasmInit
  \/ WasmZeroAllocOnBuffer
  \/ WasmMaxsimBatchSame

SpecBuffer == InitBuffer /\ [][NextBuffer]_vars

\* ------------------------------- MaxSimWasmThreaded and its worker
\* The message types a caller hands to sendMessage: the two the worker
\* knows, and one it does not.
MessageTypes == {"init", "maxsim_batch", "other"}

UnknownTypeMsg == "Unknown message type: other"

WorkerNotInitializedMsg == "WASM not initialized"

\* A promise of sendMessage not settled yet.
Unsettled == [kind |-> "pending", type |-> "none", scores |-> << >>, error |-> ""]

\* sendMessage(type, data): id = ++this.messageId, the promise's callbacks are
\* stored under id, and {id, type, data} is posted to the worker.
Threaded_sendMessage(t, via, type, n) ==
  LET id == t.messageId + 1
  IN  [t EXCEPT !.messageId = id,
                !.pendingMessages = @ \cup {id},
                !.toWorker = Append(@, id),
                !.requests = Append(@, [via |-> via, type |-> type, n |-> n]),
                !.posted = Append(@, 0),
                !.settled = Append(@, Unsettled)]

\* Mutant: a response settles whichever request is pending.
Threaded_pendingFor_any(pendingMessages, id) == pendingMessages

\* this.pendingMessages.get(id) || {}: the entry stored under the response's
\* id, if there is one.
Threaded_pendingFor(pendingMessages, id) ==
  IF id \in pendingMessages THEN {id} ELSE {}

\* resolve(data), with data the response without id, success and error, or
\* reject(new Error(error)).
Threaded_outcome(r) ==
  IF r.success
  THEN [kind |-> "resolved", type |-> r.type, scores |-> r.scores, error |-> ""]
  ELSE [kind |-> "rejected", type |-> r.type, scores |-> << >>, error |-> r.error]

\* Array.from(scores) in the worker and new Float32Array(result.scores) in
\* the wrapper: the same 32-bit floats, element by element.
Float32ArrayFrom(scores) == [k \in 1..Len(scores) |-> scores[k]]

\* Mutant: the success response carries no request's id.
Worker_success_otherId(id, type, scores) ==
  [id |-> 0, type |-> type, success |-> TRUE, scores |-> scores, error |-> ""]

\* self.postMessage({id, type, success: true, ...}).
Worker_success(id, type, scores) ==
  [id |-> id, type |-> type, success |-> TRUE, scores |-> scores, error |-> ""]

\* Mutant: the catch clause posts nothing.
Worker_catch_silent(id, type, message) == {}

\* catch (error): self.postMessage({id, type, success: false, error: error.message}).
Worker_catch(id, type, message) ==
  {[id |-> id, type |-> type, success |-> FALSE, scores |-> << >>, error |-> message]}

\* The responses posted, with the count of those posted for id.
Worker_post(t, id, rs) ==
  [t EXCEPT !.responses = @ \cup rs, !.posted[id] = @ + Cardinality(rs)]

\* error.message of a caught error: the text of the error without the name
\* of its class (a TypeError or a RangeError thrown by the engine; an Error
\* made with new Error(message) is written here by its message alone).
Error_message(text) ==
  IF text = UndefinedLengthMsg
  THEN "Cannot read properties of undefined (reading 'length')"
  ELSE IF text = RangeErrorMsg THEN "offset is out of bounds"
  ELSE text

\* case 'maxsim_batch' of the worker's handler: the error thrown when the
\* module variable wasmInstance is null, else what maxsimBatchZeroAlloc of the
\* MaxSimWasm object does (it throws while the object is not initialized), as
\* the responses posted and the length of the persistent buffer afterwards.
Worker_maxsim_batch(id, instance, initialized, queryEmbedding, documents, length) ==
  IF instance = "null"
  THEN [rs |-> Worker_catch(id, "maxsim_batch", WorkerNotInitializedMsg),
        docBuffer |-> length]
  ELSE IF ~initialized
  THEN [rs |-> Worker_catch(id, "maxsim_batch", NotInitializedMsg),
        docBuffer |-> length]
  ELSE LET out == Wasm_maxsimBatchZeroAlloc(queryEmbedding, documents, length)
       IN  [rs |-> IF out.ret.kind = "scores"
                   THEN {Worker_success(id, "maxsim_batch",
                                        Float32ArrayFrom(out.ret.scores))}
                   ELSE Worker_catch(id, "maxsim_batch",
                                     Error_message(out.ret.msg)),
            docBuffer |-> out.docBuffer]

\* init() of the wrapper up to its await: nothing when already initialized;
\* else a new Worker is created (a new module: no MaxSimWasm object yet), its
\* onmessage handler is set and the init message is sent. A second init() is
\* called only when the first has settled and no request is outstanding.
ThreadedInit ==
  /\ threaded.initCall = 0
  /\ IF threaded.isInitialized
     THEN /\ ret' = Did("init", "threaded")
          /\ UNCHANGED <<threaded, isInitialized, wasmInstance, docBuffer>>
     ELSE /\ threaded.messageId < MaxMessages
          /\ threaded.pendingMessages = {}
          /\ threaded.toWorker = << >>
          /\ threaded.responses = {}
          /\ threaded' =
               [Threaded_sendMessage([threaded EXCEPT !.worker = "running",
                                                      !.wasmInstance = "null"],
                                     "init", "init", 0)
                EXCEPT !.initCall = threaded.messageId + 1]
          /\ isInitialized' = FALSE
          /\ wasmInstance' = "null"
          /\ docBuffer' = 0
          /\ UNCHANGED ret
  /\ UNCHANGED <<query, docs, packing, inits, blocks, facade, initCall, flatVars, callVars>>

\* init() resumes when the promise of its init message has settled: resolved,
\* it sets isInitialized; rejected, init() rejects with the same error.
ThreadedInitResume ==
  /\ threaded.initCall # 0
  /\ LET o == threaded.settled[threaded.initCall]
     IN  /\ o.kind # "pending"
         /\ threaded' = [threaded EXCEPT !.initCall = 0,
                                         !.isInitialized = (o.kind = "resolved")]
         /\ ret' = IF o.kind = "resolved" THEN Did("init", "threaded")
                   ELSE Threw("init", "threaded", 0, o.error)
  /\ UNCHANGED <<query, docs, packing, inits, blocks, facade, wasmVars, flatVars, callVars>>

\* maxsimBatch(query, documents) up to its await (maxsimBatchZeroAlloc is the
\* same method): it throws when the wrapper is not initialized, else it sends
\* a maxsim_batch message with the query and the documents.
ThreadedMaxsimBatch ==
  /\ \E n \in 0..Len(docs) :
       IF ~threaded.isInitialized
       THEN /\ n = 0
            /\ ret' = Threw("maxsimBatch", "threaded", 0, NotInitializedMsg)
            /\ UNCHANGED threaded
       ELSE /\ threaded.messageId < MaxMessages
            /\ threaded' = Threaded_sendMessage(threaded, "maxsimBatch", "maxsim_batch", n)
            /\ UNCHANGED ret
  /\ UNCHANGED <<query, docs, packing, inits, blocks, facade, wasmVars, flatVars, callVars>>

\* sendMessage called by the caller itself on a wrapper that has a worker.
ThreadedSendMessage ==
  /\ threaded.worker # "null"
  /\ threaded.messageId < MaxMessages
  /\ \E type \in MessageTypes \ {"init"} :
       threaded' = Threaded_sendMessage(threaded, "sendMessage", type, Len(docs))
  /\ UNCHANGED <<query, docs, packing, inits, blocks, facade, ret, wasmVars, flatVars, callVars>>

\* The worker's script fails to load: its handler never runs. The wrapper
\* sets onmessage only, so nothing tells it.
WorkerFails ==
  /\ threaded.worker = "running"
  /\ threaded.toWorker # << >>
  /\ Head(threaded.toWorker) = threaded.initCall
  /\ threaded' = [threaded EXCEPT !.worker = "failed"]
  /\ UNCHANGED <<query, docs, packing, inits, blocks, facade, ret, wasmVars, flatVars, callVars>>

\* self.onmessage of the worker on the next message, up to its first await
\* or its end. 'init': a new MaxSimWasm is assigned to wasmInstance and its
\* init() awaited. 'maxsim_batch': scored and answered. Any other type: the
\* error of the default case, answered by the catch clause.
WorkerOnMessage ==
  /\ threaded.worker = "running"
  /\ threaded.toWorker # << >>
  /\ LET id == Head(threaded.toWorker)
         req == threaded.requests[id]
         t == [threaded EXCEPT !.toWorker = Tail(@)]
     IN  IF req.type = "init"
         THEN /\ threaded' = [t EXCEPT !.wasmInstance = "object",
                                       !.suspended = @ \cup {id}]
              /\ isInitialized' = FALSE
              /\ wasmInstance' = "null"
              /\ docBuffer' = 0
         ELSE IF req.type = "maxsim_batch"
         THEN LET out == Worker_maxsim_batch(id, threaded.wasmInstance, isInitialized,
                                             query, DocumentsOf(docs, req.n), docBuffer)
              IN  /\ threaded' = Worker_post(t, id, out.rs)
                  /\ docBuffer' = out.docBuffer
                  /\ UNCHANGED <<isInitialized, wasmInstance>>
         ELSE /\ threaded' = Worker_post(t, id, Worker_catch(id, req.type, UnknownTypeMsg))
              /\ UNCHANGED <<isInitialized, wasmInstance, docBuffer>>
  /\ UNCHANGED <<query, docs, packing, inits, blocks, facade, ret, initCall, flatVars, callVars>>

\* await wasmInstance.init() resolves in the worker: the object is
\* initialized and the init message is answered with success.
WorkerInitResolves ==
  /\ \E id \in threaded.suspended :
       threaded' = Worker_post([threaded EXCEPT !.suspended = @ \ {id}], id,
                               {Worker_success(id, "init", << >>)})
  /\ isInitialized' = TRUE
  /\ wasmInstance' = "instance"
  /\ UNCHANGED <<query, docs, packing, inits, blocks, facade, ret, docBuffer, initCall, flatVars, callVars>>

\* await wasmInstance.init() rejects in the worker after its three attempts:
\* the catch clause answers the init message with the error.
WorkerInitRejects ==
  /\ \E id \in threaded.suspended :
       threaded' = Worker_post([threaded EXCEPT !.suspended = @ \ {id}], id,
                               Worker_catch(id, "init", InitFailedMsg))
  /\ UNCHANGED <<query, docs, packing, inits, blocks, facade, ret, wasmVars, flatVars, callVars>>

\* worker.onmessage of the wrapper on a response, the responses arriving in
\* any order: the entry under the response's id is deleted and its promise
\* resolved or rejected; a response with no entry is dropped. A settled
\* maxsimBatch call returns new Float32Array(result.scores), or throws.
ThreadedOnMessage ==
  /\ \E r \in threaded.responses :
       LET found == Threaded_pendingFor(threaded.pendingMessages, r.id)
           t == [threaded EXCEPT !.responses = @ \ {r}]
       IN  IF found = {}
           THEN /\ threaded' = t
                /\ UNCHANGED ret
           ELSE \E id \in found :
                  /\ threaded' = [t EXCEPT !.pendingMessages = @ \ {id},
                                           !.settled[id] = Threaded_outcome(r)]
                  /\ ret' = IF threaded.requests[id].via # "maxsimBatch" THEN ret
                            ELSE IF r.success
                            THEN [ReturnedScores("maxsimBatch", "threaded",
                                                 Float32ArrayFrom(r.scores))
                                  EXCEPT !.idx = id]
                            ELSE Threw("maxsimBatch", "threaded", id, r.error)
  /\ UNCHANGED <<query, docs, packing, inits, blocks, facade, wasmVars, flatVars, callVars>>

\* The caller's query, without tokens or with two, and its two documents.
ThreadedQueries == {<< >>, << <<1, 1>>, <<1, -1>> >>}
ThreadedDocs == {<< << <<1, 1>> >>, << <<-1, -1>>, <<1, -1>> >> >>}

\* A query (the empty one included), two documents and a freshly
\* constructed wrapper.
InitThreaded ==
  /\ query \in ThreadedQueries
  /\ docs \in ThreadedDocs
  /\ ret = NoCall
  /\ WasmConstructed
  /\ FlatUnused

NextThreaded ==
  \/ ThreadedInit
  \/ ThreadedInitResume
  \/ ThreadedMaxsimBatch
  \/ ThreadedSendMessage
  \/ WorkerFails
  \/ WorkerOnMessage
  \/ WorkerInitResolves
  \/ WorkerInitRejects
  \/ ThreadedOnMessage

SpecThreaded == InitThreaded /\ [][NextThreaded]_vars

\* The worker handles every message posted to it while it runs, every
\* init() it awaits settles, and every response posted is delivered.
SpecThreadedFair ==
  /\ SpecThreaded
  /\ WF_vars(WorkerOnMessage)
  /\ WF_vars(WorkerInitResolves \/ WorkerInitRejects)
  /\ WF_vars(ThreadedOnMessage)

\* ------------------------------------------------- claims on the JS kernels
\* The document of the last single-pair call.
RetDoc == docs[ret.idx]

SinglePairCall == ret.op \in {"maxsim", "maxsim_normalized"}

\* Every token of q and of d has the same dimension.
SameDim(q, d) ==
  \A i \in 1..Len(q), j \in 1..Len(d) :
    /\ Len(q[i]) = Len(d[j])
    /\ Len(q[i]) = Len(q[1])

\* The mathematical dot product, max and MaxSim, independent of the loops.
RECURSIVE SumOver(_, _)
SumOver(f, S) ==
  IF S = {} THEN 0
  ELSE LET x == CHOOSE y \in S : TRUE
       IN  f[x] + SumOver(f, S \ {x})

MathDot(a, b) == SumOver([k \in 1..Len(a) |-> a[k] * b[k]], 1..Len(a))

SetMax(S) == CHOOSE m \in S : \A x \in S : x <= m

MathMaxSim(q, d) ==
  SumOver([i \in 1..Len(q) |->
             SetMax({MathDot(q[i], d[j]) : j \in 1..Len(d)})],
          1..Len(q))

\* C1: for a non-empty query and a non-empty document (vectors of one
\* dimension), maxsim returns the sum over the query tokens of the maximum
\* dot product with any document token.
C1_MaxsimIsSumOfMaxima ==
  (/\ ret.op = "maxsim"
   /\ Len(query) > 0
   /\ Len(RetDoc) > 0
   /\ SameDim(query, RetDoc))
  => (ret.kind = "value" /\ ret.val = Num(MathMaxSim(query, RetDoc)))

\* C1 witness: a two-token query scored against a two-token document where
\* one query token has only negative dot products, so the score depends on
\* the maximum having started below zero.
C1_Witness ==
  /\ ret.op = "maxsim"
  /\ Len(query) = 2
  /\ Len(RetDoc) = 2
  /\ SameDim(query, RetDoc)
  /\ \E i \in 1..2 : \A j \in 1..2 : MathDot(query[i], RetDoc[j]) < 0
  /\ ret.val = Num(MathMaxSim(query, RetDoc))

\* A rational divided by a positive whole number.
RatDiv(r, k) == Quot(r[1], r[2] * k)

\* C3: for a non-empty query, maxsim_normalized(q, d) is exactly
\* maxsim(q, d) divided by the number of query tokens.
C3_NormalizedIsRawOverLen ==
  (ret.op = "maxsim_normalized" /\ Len(query) > 0)
  => (/\ ret.kind = "value"
      /\ ret.val = RatDiv(maxsimOf(ret.impl, query, RetDoc, FALSE), Len(query)))

\* C3 witness: a normalized call with two query tokens whose result differs
\* from the raw score.
C3_Witness ==
  /\ ret.op = "maxsim_normalized"
  /\ Len(query) = 2
  /\ Len(RetDoc) > 0
  /\ ret.val # maxsimOf(ret.impl, query, RetDoc, FALSE)
  /\ ret.val = RatDiv(maxsimOf(ret.impl, query, RetDoc, FALSE), 2)

\* A query token and a document token of different dimensions.
DimMismatch(q, d) ==
  \E i \in 1..Len(q), j \in 1..Len(d) : Len(q[i]) # Len(d[j])

\* C4 (as claimed): a single-pair call on a query token and a document token
\* of different dimensions fails with an error and returns no score.
C4_MismatchFailsFast ==
  (SinglePairCall /\ DimMismatch(query, RetDoc)) => ret.kind = "error"

\* ----------------------------------------------- claims on batch scoring
BatchCall == ret.op \in {"maxsimBatch", "maxsimBatch_normalized"}

\* The single-pair score of the implementation that made the last call.
SinglePairScore(impl, q, d, normalized) ==
  IF impl = "wasm" THEN Wasm_maxsim(q, d, normalized)
  ELSE maxsimOf(impl, q, d, normalized)

\* The last call was refused by the initialization check.
ThrewNotInitialized == ret.kind = "error" /\ ret.msg = NotInitializedMsg

\* The last call was made on the initialized wrapper: the flag, which is
\* never cleared, is set, and the call is not one refused before it was set
\* (the result of such a call stays the last result while init() goes on).
CalledInitialized == isInitialized /\ ~ThrewNotInitialized

\* No method of the WASM wrapper called while the flag is set (a step that
\* is not one of init()) is refused by the initialization check.
InitializedIsNotRefused ==
  [][(ret'.impl = "wasm" /\ isInitialized /\ initCall' = initCall)
     => ~ThrewNotInitialized']_vars

\* One score per document, the i-th being the single-pair score of the
\* query against the i-th document.
PerDocumentInOrder ==
  /\ ret.kind = "scores"
  /\ Len(ret.scores) = Len(docs)
  /\ \A i \in 1..Len(docs) :
       ret.scores[i] =
         SinglePairScore(ret.impl, query, docs[i],
                         ret.op = "maxsimBatch_normalized")

\* C2: a batch call (on the WASM wrapper: one made once initialized) returns
\* one score per document, the i-th being the single-pair score of the query
\* against the i-th document.
C2_BatchIsPerDocumentInOrder ==
  /\ []((BatchCall /\ (ret.impl = "wasm" => CalledInitialized))
        => PerDocumentInOrder)
  /\ InitializedIsNotRefused

\* C2 witness: a batch of two documents of different lengths and different
\* scores, scored through the WASM wrapper.
C2_Witness ==
  /\ ret.op = "maxsimBatch"
  /\ ret.impl = "wasm"
  /\ ret.kind = "scores"
  /\ Len(docs) = 2
  /\ Len(docs[1]) # Len(docs[2])
  /\ Len(ret.scores) = 2
  /\ ret.scores[1] # ret.scores[2]
  /\ ret.scores[2] = Wasm_maxsim(query, docs[2], FALSE)

\* ------------------------------------------------ claims on the flat API
FlatBatchCall == ret.op \in {"maxsimBatchFlat", "maxsimBatchFlat_normalized"}

\* The caller's document buffer is not (sum of the token counts) x D long.
DocBufferMismatch ==
  Len(buffers.doc_flat) # Rust_total_tokens(buffers.doc_tokens) * buffers.embedding_dim

\* C5 (as claimed): a flat batch call on an initialized scorer with a
\* well-sized query and a document buffer whose length differs from (sum of
\* the token counts) x D ends in an error, never in scores or a trap.
C5_DocBufferMismatchFailsFast ==
  (/\ FlatBatchCall
   /\ CalledInitialized
   /\ Len(buffers.query_flat) = buffers.query_tokens * buffers.embedding_dim
   /\ DocBufferMismatch)
  => ret.kind = "error"

\* --------------------------------------- claims on the preloaded corpus
LoadCall == ret.op = "load_documents"

\* The stored documents satisfy sum(token counts) x D = buffer length.
CorpusWellFormed(documents) ==
  Rust_total_tokens(documents.doc_tokens) * documents.embedding_dim
    = Len(documents.embeddings_flat)

\* C6: load_documents ends in an error whenever the buffer is not (sum of
\* the token counts) x D floats long, and the stored corpus always satisfies
\* sum(token counts) x D = buffer length.
C6_LoadRejectsMismatchedBuffer ==
  /\ (LoadCall /\ DocBufferMismatch) => ret.kind = "error"
  /\ CorpusWellFormed(corpus)

\* C6 witness: a load of two or more tokens with a buffer of the wrong
\* length was refused while a well-formed corpus of documents stays stored.
C6_Witness ==
  /\ LoadCall
  /\ DocBufferMismatch
  /\ Rust_total_tokens(buffers.doc_tokens) >= 2
  /\ ret.kind = "error"
  /\ corpus.loaded
  /\ Len(corpus.doc_tokens) > 0
  /\ CorpusWellFormed(corpus)

\* What a caller can observe of stored documents: the count and the result
\* of every enumerated search.
Observed(documents) ==
  [num |-> Rust_num_documents_loaded(documents),
   search |-> [q \in SearchQueries(documents) |->
                 Binding_search_preloaded(documents, q.query_flat, q.query_tokens)]]

\* The same count and the same search results are observed of d and of e
\* (as they are of equal stored documents).
ObservedEqual(d, e) == d = e \/ Observed(d) = Observed(e)

\* C7: a load_documents call that fails leaves num_documents_loaded and the
\* result of every search_preloaded query as they were before the call.
\* Not decided here: what a refused load leaves stored is not in the
\* sources, and Rust_load_refused enumerates both outcomes, of which this
\* statement holds for one (C7_RefusedLoadKept) and fails for the other
\* (C7_RefusedLoadDropped).
C7_FailedLoadLeavesCorpus ==
  [][(ret'.op = "load_documents" /\ ret'.kind = "error")
     => ObservedEqual(corpus', corpus)]_vars

\* A load failed after documents had been stored, and the stored documents,
\* with non-zero scores, are still there.
C7_RefusedLoadKept ==
  /\ LoadCall
  /\ ret.kind = "error"
  /\ ret.msg = LoadMismatchMsg
  /\ prev.num > 0
  /\ Rust_num_documents_loaded(corpus) = prev.num
  /\ \E q \in SearchQueries(corpus) : \E i \in 1..Len(corpus.doc_tokens) :
       Rust_search_preloaded(corpus, q.query_flat, q.query_tokens)[i] # Num(0)

\* A load failed after documents had been stored, and none are stored now.
C7_RefusedLoadDropped ==
  /\ LoadCall
  /\ ret.kind = "error"
  /\ ret.msg = LoadMismatchMsg
  /\ prev.num > 0
  /\ corpus = NoCorpus

\* C8: after a successful load_documents, num_documents_loaded is the number
\* of documents supplied and every search scores exactly the supplied
\* buffer and token counts, whatever was stored before.
C8_LoadReplacesCorpus ==
  (LoadCall /\ ret.kind = "done")
  => (/\ Rust_num_documents_loaded(corpus) = Len(buffers.doc_tokens)
      /\ \A q \in SearchQueries(corpus) :
           Binding_search_preloaded(corpus, q.query_flat, q.query_tokens)
             = {ReturnedScores("search_preloaded", "wasm",
                  Rust_maxsim_batch(q.query_flat, q.query_tokens,
                                    buffers.doc_flat, buffers.doc_tokens,
                                    buffers.embedding_dim))})

\* C8 witness: a successful load of one document over a stored corpus of
\* more documents.
C8_Witness ==
  /\ LoadCall
  /\ ret.kind = "done"
  /\ prev.num > 1
  /\ Len(buffers.doc_tokens) = 1
  /\ buffers.doc_tokens[1] > 0
  /\ Rust_num_documents_loaded(corpus) = 1

SearchCall == ret.op = "search_preloaded"

\* The floats of stored document i, cut out of the stored buffer.
StoredDocument(documents, i) ==
  LET off == Rust_doc_offset(documents.doc_tokens, i, documents.embedding_dim)
  IN  SubSeq(documents.embeddings_flat, off + 1,
             off + documents.doc_tokens[i] * documents.embedding_dim)

Reading(t) ==
  /\ calls[t].op = "search_preloaded"
  /\ calls[t].pc \in {"read_flat", "return"}

\* Caller t is inside a load that is storing.
Storing(t) ==
  /\ calls[t].op = "load_documents"
  /\ calls[t].pc \in {"store_flat", "store_tokens"}

\* C11: no load_documents call stores while a search_preloaded call is
\* reading, and the documents a search has read are those stored by exactly
\* one completed load (or none, before any load).
C11_SearchSeesOneCompletedLoad ==
  /\ \A t \in Callers, u \in Callers : ~(Reading(t) /\ Storing(u))
  /\ \A t \in Callers :
       (calls[t].seen # NoCorpus /\ calls[t].pc \in {"return", "none"})
       => calls[t].seen \in completed

\* C11 witness: a search has read a stored corpus after two different loads
\* completed, one of them made by the other caller.
C11_Witness ==
  \E t \in Callers :
    /\ calls[t].op = "search_preloaded"
    /\ calls[t].pc = "return"
    /\ calls[t].seen.loaded
    /\ calls[t].seen \in completed
    /\ Cardinality(completed) = 3

\* ---------------------------------------------- claims on degenerate inputs
\* C12: maxsim and maxsim_normalized (on the WASM wrapper: once initialized)
\* return 0 and do not throw whenever the query or the document has no
\* tokens.
C12_EmptyInputScoresZero ==
  /\ []((/\ SinglePairCall
         /\ ret.impl = "wasm" => CalledInitialized
         /\ Len(query) = 0 \/ Len(RetDoc) = 0)
        => (ret.kind = "value" /\ ret.val = Num(0)))
  /\ InitializedIsNotRefused

\* C12 witness: the initialized WASM wrapper scored a two-token query against
\* a document without tokens, normalized, and returned 0.
C12_Witness ==
  /\ ret.op = "maxsim_normalized"
  /\ ret.impl = "wasm"
  /\ isInitialized
  /\ Len(query) = 2
  /\ Len(RetDoc) = 0
  /\ ret.kind = "value"
  /\ ret.val = Num(0)

\* Any batch call on nested inputs.
NestedBatchCall ==
  ret.op \in {"maxsimBatch", "maxsimBatch_normalized", "maxsimBatchZeroAlloc"}

\* C13 (as claimed): a batch call (on the WASM wrapper: once initialized)
\* with an empty query or an empty document set returns an empty or
\* zero-filled score array and throws nothing.
C13_EmptyBatchScoresZero ==
  (/\ NestedBatchCall
   /\ ret.impl = "wasm" => CalledInitialized
   /\ Len(query) = 0 \/ Len(docs) = 0)
  => (/\ ret.kind = "scores"
      /\ \A i \in 1..Len(ret.scores) : ret.scores[i] = Num(0))

\* --------------------------------------- claims on equivalent scoring paths
\* C14: when all documents of a batch have the same token count, the scores
\* the initialized WASM wrapper returns through the uniform-length path are
\* those of the variable-length path on the same documents.
C14_UniformPathIsVariablePath ==
  /\ []((/\ BatchCall
         /\ ret.impl = "wasm"
         /\ CalledInitialized
         /\ Len(query) > 0
         /\ Len(docs) > 0
         /\ Wasm_allSameLength(docs))
        => (/\ ret.kind = "scores"
            /\ ret.scores = Wasm_maxsimBatchVariablePath(
                               query, docs, ret.op = "maxsimBatch_normalized")))
  /\ InitializedIsNotRefused

\* C14 witness: two documents of two tokens each with different scores,
\* scored through the uniform-length path.
C14_Witness ==
  /\ ret.op = "maxsimBatch"
  /\ ret.impl = "wasm"
  /\ ret.kind = "scores"
  /\ Len(query) = 2
  /\ Len(docs) = 2
  /\ Len(docs[1]) = 2
  /\ Len(docs[2]) = 2
  /\ ret.scores[1] # ret.scores[2]
  /\ ret.scores = Wasm_maxsimBatchUniformPath(query, docs, FALSE)
  /\ ret.scores = Wasm_maxsimBatchVariablePath(query, docs, FALSE)

\* A single-pair call of the flat API.
FlatCall == ret.op \in {"maxsimFlat", "maxsimFlat_normalized"}

\* C15: on an initialized WASM wrapper, scoring the flattened query and
\* documents through maxsimFlat / maxsimBatchFlat (raw or normalized) gives
\* the scores of maxsim / maxsimBatch on the nested data.
C15_FlatApiIsNestedApi ==
  /\ []((FlatCall /\ CalledInitialized)
        => (/\ ret.kind = "value"
            /\ ret.val = Wasm_maxsim(query, RetDoc,
                                     ret.op = "maxsimFlat_normalized")))
  /\ []((FlatBatchCall /\ CalledInitialized)
        => (/\ ret.kind = "scores"
            /\ ret.scores = Wasm_maxsimBatch(query, docs,
                                ret.op = "maxsimBatchFlat_normalized")))
  /\ InitializedIsNotRefused

\* C15 witness: the flat batch call on the flattening of a two-token query
\* and two documents of different lengths and scores returned the nested
\* call's scores.
C15_Witness ==
  /\ ret.op = "maxsimBatchFlat"
  /\ ret.kind = "scores"
  /\ Len(query) = 2
  /\ Len(docs) = 2
  /\ Len(docs[1]) = 1
  /\ Len(docs[2]) = 2
  /\ query = Nested_query(buffers)
  /\ docs = Nested_docs(buffers)
  /\ Len(buffers.doc_flat) = 6
  /\ ret.scores[1] # ret.scores[2]
  /\ ret.scores = Wasm_maxsimBatch(query, docs, FALSE)

\* A call of the blocked kernel.
BlockedCall == ret.op \in {"maxsim_blocked", "maxsim_blocked_normalized"}

\* C16: whatever query-token and document-token block sizes the cache-blocked
\* traversal runs with (the kernel's own, and sizes that do not divide the
\* token counts), the score it returns is the score of the unblocked sweep,
\* which knows no block size.
C16_BlockSizeDoesNotChangeScore ==
  BlockedCall
  => (/\ ret.kind = "value"
      /\ blocks.q \in QBlockSizes
      /\ blocks.d \in DBlockSizes(buffers.doc_tokens[1])
      /\ ret.val = Rust_maxsim_doc(
                      buffers.query_flat, buffers.query_tokens,
                      buffers.doc_flat, 0, buffers.doc_tokens[1],
                      buffers.embedding_dim,
                      ret.op = "maxsim_blocked_normalized"))

\* C16 witness: a query longer than the kernel's query block and a document
\* longer than its document block, neither a multiple of the block size,
\* scored with the kernel's own block sizes.
C16_Witness ==
  /\ ret.op = "maxsim_blocked"
  /\ blocks.pc = "idle"
  /\ blocks.q = Rust_q_block_size
  /\ blocks.d = Rust_d_block_size(buffers.doc_tokens[1])
  /\ buffers.query_tokens > blocks.q
  /\ buffers.query_tokens % blocks.q # 0
  /\ buffers.doc_tokens[1] > blocks.d
  /\ buffers.doc_tokens[1] % blocks.d # 0
  /\ ret.val # Num(0)

\* C17: MaxSimBaseline and MaxSimOptimized return the same maxsim and
\* maxsim_normalized score for every input, and the unrolled dot product with
\* its remainder loop equals the plain scalar dot product for every pair of
\* tokens, whatever their length.
C17_OptimizedIsBaseline ==
  SinglePairCall
  => (/\ ret.kind = "value"
      /\ \A impl \in Impls :
           ret.val = maxsimOf(impl, query, RetDoc, ret.op = "maxsim_normalized")
      /\ \A i \in 1..Len(query), j \in 1..Len(RetDoc) :
           Optimized_dotProduct(query[i], RetDoc[j])
             = Baseline_dotProduct(query[i], RetDoc[j]))

\* C17 witness: the optimized kernel scored two-token sequences of vectors
\* of length 7 (one unrolled iteration, a remainder of 3) with a non-zero
\* result that is the baseline's.
C17_Witness ==
  /\ ret.op = "maxsim"
  /\ ret.impl = "optimized"
  /\ Len(query) = 2
  /\ Len(RetDoc) = 2
  /\ \A i \in 1..2 : Len(query[i]) = 7 /\ Len(RetDoc[i]) = 7
  /\ ret.val # Num(0)
  /\ ret.val = Baseline_maxsim(query, RetDoc)

\* ------------------------------------------ claims on the initialization check
\* The scoring methods of MaxSimWasm.
ScoringOps ==
  {"maxsim", "maxsim_normalized", "maxsimBatch", "maxsimBatch_normalized",
   "maxsimBatchHyperOptimized", "maxsimBatchZeroAlloc", "maxsimBatchFlat",
   "maxsimBatchFlat_normalized", "maxsimFlat", "maxsimFlat_normalized"}

\* The last call ended at the initialization check, before any use of the
\* WASM instance.
\* C18 (as claimed): a scoring method called while no init() call has
\* completed successfully throws the not-initialized error.
C18_ThrowsBeforeInitCompletes ==
  (ret.op \in ScoringOps /\ ~initCall.resolved) => ThrewNotInitialized

\* C18 (amended): a scoring method throws the not-initialized error exactly
\* when isInitialized is false at the call, which it is until an init() call
\* has created the WASM instance; once an init() call has completed
\* successfully it is true.
C18_ThrowsUntilInstanceCreated ==
  /\ [](isInitialized <=> wasmInstance = "instance")
  /\ [](initCall.resolved => isInitialized)
  /\ [][(ret'.op \in ScoringOps /\ initCall' = initCall)
        => (~isInitialized <=> (ret'.kind = "error" /\ ret'.msg = NotInitializedMsg))]_vars

\* C18 witness: with the second attempt of init() suspended at the import, a
\* flat batch call threw the not-initialized error.
C18_Witness ==
  /\ initCall.pc = "import"
  /\ initCall.attempt = 2
  /\ ~isInitialized
  /\ wasmInstance = "null"
  /\ ret.op = "maxsimBatchFlat"
  /\ Len(docs) = 2
  /\ ThrewNotInitialized

\* ------------------------------------------------ claims on MaxSim.create
\* C19: MaxSim.create with backend 'auto' never rejects, whatever WASM does:
\* the call, once returned, has produced an instance; that instance wraps the
\* WASM wrapper (backend 'wasm-simd', initialized) exactly when SIMD was
\* reported and init() resolved, and the JS optimized backend otherwise; and
\* the JS fallback after a supported SIMD check comes only after init() was
\* tried and rejected (the wrapper is left uninitialized).
C19_AutoFallsBackToJsOptimized ==
  facade.option = "auto" =>
    /\ facade.pc # "rejected"
    /\ ~(ret.op = "create" /\ ret.kind = "error")
    /\ facade.pc = "done" =>
         /\ facade.impl \in {"wasm", "optimized"}
         /\ facade.backend = InfoBackend(facade.impl)
         /\ facade.impl = "wasm" <=> (facade.simd = "yes" /\ initCall.resolved)
         /\ facade.impl = "wasm" => (isInitialized /\ facade.backend = "wasm-simd")
         /\ facade.impl = "optimized" =>
              (~isInitialized /\ facade.backend = "js-optimized")

\* SIMD was reported, init() rejected after its last attempt, and the call
\* returned an instance on the JS optimized backend, which then scored.
C19_Witness ==
  /\ facade.option = "auto"
  /\ facade.simd = "yes"
  /\ facade.pc = "done"
  /\ facade.impl = "optimized"
  /\ ~initCall.resolved
  /\ ret.op = "maxsim"
  /\ ret.impl = "optimized"
  /\ ret.kind = "value"

\* ----------------------------------------- claims on the length of the query
\* Twice a double, which is a double.
DoubleTwice(x) == DoubleOf(2 * x.hi, 2 * x.lo)

\* The per-token maxima that maxsim sums for a query against a document
\* (none when the document has no tokens: maxsim returns 0 before any loop).
Maxima(q, doc) ==
  IF Len(doc) = 0 THEN << >>
  ELSE [i \in 1..Len(q) |-> BaselineDouble_maxLoop(q[i], doc, 1, DoubleNegInf)]

\* The whole part of the sum of the maxima m.
RECURSIVE WholeSum(_)
WholeSum(m) == IF m = << >> THEN 0 ELSE Head(m).hi + WholeSum(Tail(m))

\* maxsim has scored a query against a document and is then called on the
\* same document with every token of the query duplicated.
DuplicatedCall ==
  /\ query' # query
  /\ ret.op = "maxsim"
  /\ ret'.op = "maxsim"
  /\ ret'.impl = ret.impl
  /\ ret'.idx = ret.idx
  /\ query' \in Duplicated(query)

\* C20 as claimed: when maxsim has scored a query against a document and is
\* then called on the same document with every token of the query
\* duplicated, the raw score it returns is exactly twice the first one.
C20_DuplicatedQueryDoublesRawScore ==
  [][DuplicatedCall
     => /\ ret.kind = "value"
        /\ ret'.kind = "value"
        /\ Len(query') = 2 * Len(query)
        /\ ret'.val = DoubleTwice(ret.val)]_vars

\* C20, amended: the score of the duplicated query is twice the first score
\* up to the rounding of the additions.  It is exactly twice when every
\* per-token maximum is a whole number, and otherwise differs from it by at
\* most 3 * Tq * 2^-52 times the sum of the maxima (12 * Tq units of 2^-54
\* for each whole 1 of that sum), Tq the length of the first query.
C20_DuplicatedQueryDoublesUpToRounding ==
  [][DuplicatedCall
     => LET m == Maxima(query, docs[ret.idx])
            twice == DoubleTwice(ret.val)
        IN  /\ ret.kind = "value"
            /\ ret'.kind = "value"
            /\ Len(query') = 2 * Len(query)
            /\ ret'.val.hi = twice.hi
            /\ Abs(ret'.val.lo - twice.lo) <= 12 * Len(query) * WholeSum(m)
            /\ (\A i \in 1..Len(m) : m[i].lo = 0) => ret'.val = twice]_vars

\* C20 witness: a 4-token query made of a 2-token query has been scored, and
\* its score is not twice the score of the 2-token query: an addition
\* rounded.
C20_Witness ==
  /\ ret.op = "maxsim"
  /\ ret.kind = "value"
  /\ Len(query) = 4
  /\ \E q2 \in {SubSeq(query, 1, 2), <<query[1], query[3]>>} :
       /\ query \in Duplicated(q2)
       /\ ret.val = BaselineDouble_maxsim(query, docs[1])
       /\ ret.val # DoubleTwice(BaselineDouble_maxsim(q2, docs[1]))

\* ------------------------------------------------- claims on the ranking
\* One score below another (scores are fractions with positive denominators).
RatLess(a, b) == a[1] * b[2] < b[1] * a[2]

\* Documents i and j stand in the same order under both score arrays.
SameOrder(s1, s2, i, j) ==
  /\ RatLess(s1[i], s1[j]) <=> RatLess(s2[i], s2[j])
  /\ s1[i] = s1[j] <=> s2[i] = s2[j]

\* C21: for a non-empty query, the normalized scores of a batch order the
\* documents exactly as the raw scores of the same implementation do: every
\* pair of documents compares the same way (below, equal, above) under both.
C21_NormalizedRanksAsRaw ==
  (ret.op = "maxsimBatch_normalized" /\ ret.impl \in Impls /\ Len(query) > 0)
  => LET raw == maxsimBatchOf(ret.impl, query, docs, FALSE)
     IN  /\ ret.kind = "scores"
         /\ Len(ret.scores) = Len(docs)
         /\ Len(raw) = Len(docs)
         /\ \A i \in 1..Len(docs), j \in 1..Len(docs) :
              SameOrder(ret.scores, raw, i, j)

\* C21 witness: a two-token query and two documents whose raw scores differ;
\* the normalized scores differ from the raw ones and rank the same way.
C21_Witness ==
  /\ ret.op = "maxsimBatch_normalized"
  /\ ret.impl = "baseline"
  /\ Len(query) = 2
  /\ Len(docs) = 2
  /\ LET raw == maxsimBatchOf("baseline", query, docs, FALSE)
     IN  /\ RatLess(raw[1], raw[2])
         /\ ret.scores[2] # raw[2]
         /\ RatLess(ret.scores[1], ret.scores[2])

\* --------------------------------- claims on init() calls and the flag
\* An init() call of some caller rejects in this step.
InitRejects ==
  \E c \in InitCallers :
    inits.call[c].pc # "none" /\ inits'.call[c].outcome = "rejected"

\* C22 (as claimed): isInitialized is true only once an init() call has
\* completed successfully, and is false right after an init() call rejects.
C22_TrueOnlyAfterInitSucceeded ==
  [][/\ isInitialized' => inits'.resolved
     /\ InitRejects => ~isInitialized']_vars

\* C22 (amended): isInitialized is true exactly when an init() call has
\* created the WASM instance, which every resolved init() call implies; an
\* init() call that rejects leaves the flag as it was; and a scoring method
\* throws 'WASM not initialized' exactly while no instance has been created.
C22_TrueOnceInstanceCreated ==
  /\ [](isInitialized <=> inits.created > 0)
  /\ [](inits.resolved => isInitialized)
  /\ [][InitRejects => isInitialized' = isInitialized]_vars
  /\ [][(inits' = inits /\ ret'.op \in {"maxsim", "maxsimBatch"})
        => (inits.created = 0
            <=> (ret'.kind = "error" /\ ret'.msg = NotInitializedMsg))]_vars

\* C22 witness: an init() call has rejected after its last attempt, no
\* instance exists, and a scoring method called afterwards threw.
C22_Witness ==
  /\ \E c \in InitCallers :
       inits.call[c].outcome = "rejected" /\ inits.call[c].attempt = maxRetries
  /\ ~isInitialized
  /\ inits.created = 0
  /\ ret.op = "maxsim"
  /\ ret.kind = "error"
  /\ ret.msg = NotInitializedMsg

\* C23 (as claimed): at most one WASM instance is ever created for the
\* object, so wasmInstance, once set, keeps referring to the first one.
C23_AtMostOneInstance ==
  /\ inits.created <= 1
  /\ wasmInstance = "instance" => inits.current = 1

\* C23 (amended): an instance is created only by an init() call resuming from
\* its await of the module, one per such call, and wasmInstance then refers to
\* the newest; an init() call made once isInitialized is true returns without
\* starting an attempt; so no more instances are created than init() calls
\* were in progress before the flag was set.
C23_OneInstancePerCallInProgress ==
  /\ [](inits.created <= Cardinality(InitCallers))
  /\ [](inits.current = inits.created /\ (wasmInstance = "instance" <=> inits.created > 0))
  /\ [][inits'.created # inits.created
        => (/\ inits'.created = inits.created + 1
            /\ \E c \in InitCallers :
                 inits.call[c].pc = "loaded" /\ inits'.call[c].pc = "isSupported")]_vars
  /\ [][\A c \in InitCallers :
          (isInitialized /\ inits.call[c].pc = "none")
          => inits'.call[c].pc = "none"]_vars

\* C23 witness: two init() calls were in progress together, both resolved,
\* and the second instance has replaced the first.
C23_Witness ==
  /\ inits.created = 2
  /\ inits.current = 2
  /\ \A c \in InitCallers :
       inits.call[c].pc = "none" /\ inits.call[c].outcome = "resolved"

\* C29: an init() call makes at most maxRetries (3) attempts; it rejects only
\* when its third attempt fails, with 'WASM initialization failed after 3
\* attempts'; once an attempt has loaded the module the call goes on to
\* resolve without another attempt; and every call in progress settles.
C29_InitSettlesWithinThreeAttempts ==
  /\ [](\A c \in InitCallers : inits.call[c].attempt <= maxRetries)
  /\ [][\A c \in InitCallers :
          (inits.call[c].pc # "none" /\ inits'.call[c].outcome = "rejected")
          => (/\ inits.call[c].attempt = maxRetries
              /\ inits.call[c].pc \in {"import", "fetch"}
              /\ ret' = Threw("init", "wasm", c, InitFailedMsg))]_vars
  /\ [][\A c \in InitCallers :
          inits.call[c].pc \in {"loaded", "isSupported"}
          => (/\ inits'.call[c].attempt = inits.call[c].attempt
              /\ inits'.call[c].outcome # "rejected"
              /\ inits'.call[c].pc \in {"loaded", "isSupported", "none"})]_vars
  /\ \A c \in InitCallers :
       (inits.call[c].pc # "none") ~> (inits.call[c].pc = "none")

\* C29 witness: one call has rejected after three failed attempts and another
\* has resolved on its second attempt.
C29_Witness ==
  \E c, d \in InitCallers :
    /\ inits.call[c].pc = "none"
    /\ inits.call[c].outcome = "rejected"
    /\ inits.call[c].attempt = 3
    /\ inits.call[d].pc = "none"
    /\ inits.call[d].outcome = "resolved"
    /\ inits.call[d].attempt = 2

\* ------------------------------------- claims on the threaded wrapper
\* The scores the worker computes for request id: those of
\* maxsimBatchZeroAlloc on the query and the documents the request carried.
ScoresOfRequest(id) ==
  Wasm_maxsimBatchZeroAlloc(query, DocumentsOf(docs, threaded.requests[id].n), 0).ret.scores

\* C24: with several requests outstanding and the responses arriving in any
\* order, a settled promise holds the response to its own request: its type
\* is the request's, a resolved maxsim_batch promise holds the scores of its
\* own query and documents, and a maxsimBatch call that returned did so with
\* the scores of the request it sent; ids are the positions 1..messageId.
C24_SettledWithOwnResponse ==
  /\ Len(threaded.requests) = threaded.messageId
  /\ threaded.pendingMessages \subseteq 1..threaded.messageId
  /\ \A id \in 1..threaded.messageId :
       LET o == threaded.settled[id]
       IN  /\ (o.kind = "pending") = (id \in threaded.pendingMessages)
           /\ o.kind # "pending" => o.type = threaded.requests[id].type
           /\ (o.kind = "resolved" /\ o.type = "maxsim_batch")
                => o.scores = ScoresOfRequest(id)
  /\ (ret.impl = "threaded" /\ ret.kind = "scores")
       => /\ threaded.requests[ret.idx].via = "maxsimBatch"
          /\ ret.scores = ScoresOfRequest(ret.idx)

\* Two maxsimBatch calls on different documents are outstanding, and the
\* later one has been resolved while the response to the earlier one is still
\* on its way.
C24_Witness ==
  \E i, j \in 1..threaded.messageId :
    /\ i < j
    /\ threaded.requests[i].via = "maxsimBatch"
    /\ threaded.requests[j].via = "maxsimBatch"
    /\ threaded.requests[i].n # threaded.requests[j].n
    /\ threaded.settled[j].kind = "resolved"
    /\ ScoresOfRequest(i) # ScoresOfRequest(j)
    /\ i \in threaded.pendingMessages
    /\ \E r \in threaded.responses : r.id = i /\ r.success

\* C25 as stated: every promise of sendMessage is eventually settled and its
\* entry removed from pendingMessages, whatever happens to the worker.
C25_EveryPromiseSettles ==
  \A id \in 1..MaxMessages :
    (id \in threaded.pendingMessages) ~> (id \notin threaded.pendingMessages)

\* C25: a promise of sendMessage is settled exactly when its entry is
\* removed from pendingMessages, and while the worker runs every pending
\* promise is eventually settled; a worker that failed to load leaves the
\* promise of the init message pending.
C25_SettlesWhileWorkerRuns ==
  /\ [](\A id \in 1..threaded.messageId :
          (threaded.settled[id].kind \in {"resolved", "rejected"})
            = (id \notin threaded.pendingMessages))
  /\ \A id \in 1..MaxMessages :
       (id \in threaded.pendingMessages)
         ~> (id \notin threaded.pendingMessages \/ threaded.worker = "failed")
  /\ [](threaded.worker = "failed" => threaded.initCall \in threaded.pendingMessages)

\* Every request the wrapper may send has been sent and settled, one of them
\* resolved and one rejected, with nothing left in pendingMessages.
C25_Witness ==
  /\ threaded.messageId = MaxMessages
  /\ threaded.pendingMessages = {}
  /\ threaded.worker = "running"
  /\ \E i, j \in 1..threaded.messageId :
       /\ threaded.settled[i].kind = "resolved"
       /\ threaded.settled[j].kind = "rejected"

\* The ids of the messages the worker's handler has been called with.
Received == {id \in 1..threaded.messageId :
               \A k \in 1..Len(threaded.toWorker) : threaded.toWorker[k] # id}

\* The response the handler posts for id in this step, of the given kind.
AnswersNow(id, success, errors) ==
  \E r \in threaded'.responses \ threaded.responses :
    /\ r.id = id
    /\ r.success = success
    /\ r.error \in errors

\* C26: the worker posts at most one response per message, each with the id
\* and the type of a message it received; a message of an unknown type, a
\* maxsim_batch message handled before the MaxSimWasm object is initialized
\* and one whose scoring throws are answered at once with success false and
\* the error's message, a maxsim_batch message that scores with success and
\* the scores; and every message received is eventually answered (a message
\* once received stays received and a response once posted stays counted,
\* so: again and again every message received so far has its response).
C26_OneResponsePerMessage ==
  /\ [](/\ \A id \in 1..threaded.messageId : threaded.posted[id] <= 1
        /\ \A r \in threaded.responses :
             /\ r.id \in Received
             /\ r.id \notin threaded.suspended
             /\ threaded.posted[r.id] = 1
             /\ r.type = threaded.requests[r.id].type
             /\ r.success => r.type \in {"init", "maxsim_batch"}
             /\ ~r.success => r.error # "")
  /\ [][Len(threaded'.toWorker) < Len(threaded.toWorker)
        => LET id == Head(threaded.toWorker)
               type == threaded.requests[id].type
           IN  /\ type = "other" => AnswersNow(id, FALSE, {UnknownTypeMsg})
               /\ (type = "maxsim_batch" /\ ~isInitialized)
                    => AnswersNow(id, FALSE, {WorkerNotInitializedMsg, NotInitializedMsg})
               /\ (type = "maxsim_batch" /\ isInitialized /\ query = << >>)
                    => AnswersNow(id, FALSE,
                          {"Cannot read properties of undefined (reading 'length')"})
               /\ (type = "maxsim_batch" /\ isInitialized /\ query # << >>)
                    => /\ AnswersNow(id, TRUE, {""})
                       /\ \A r \in threaded'.responses \ threaded.responses :
                            r.scores = ScoresOfRequest(id)
               /\ type = "init" => threaded'.responses = threaded.responses]_vars
  /\ []<>(\A id \in Received : threaded.posted[id] = 1)

\* The worker has answered three messages and none of the responses is
\* delivered yet: init with success, a maxsim_batch message handled while
\* init() was awaited with the error of the uninitialized object, and a
\* message of an unknown type with its error.
C26_Witness ==
  /\ \E r \in threaded.responses : r.success /\ r.type = "init"
  /\ \E r \in threaded.responses :
       ~r.success /\ r.type = "maxsim_batch" /\ r.error = NotInitializedMsg
  /\ \E r \in threaded.responses :
       ~r.success /\ r.type = "other" /\ r.error = UnknownTypeMsg
  /\ \A id \in 1..threaded.messageId : threaded.posted[id] = 1

\* ------------------------------------- claims on the persistent buffer
\* The floats a call of the recorded shape packs.
PackedSize ==
  packing.queryTokens * packing.embeddingDim
  + Wasm_docSizeOfCounts(packing.docTokenCounts, Len(packing.docTokenCounts),
                         packing.embeddingDim)

\* C27: whenever maxsimBatchZeroAlloc has packed its inputs, whatever their
\* size, the persistent buffer holds at least queryTokens * dim + (total
\* document tokens) * dim floats and every element was written inside it.
C27_BufferHoldsEveryPackedElement ==
  packing.outcome # "none"
    => /\ docBuffer >= PackedSize
       /\ packing.offset <= docBuffer
       /\ packing.outcome = "packed"

\* What holds of the buffer: after the resize check it has between
\* 1024 * 1024 and maxBufferSize floats, and packing stays inside it exactly
\* for inputs of at most maxBufferSize floats.
C27_BufferHoldsUpToTheCap ==
  packing.outcome # "none"
    => /\ docBuffer <= maxBufferSize
       /\ docBuffer >= 1024 * 1024
       /\ (packing.outcome = "packed") = (PackedSize <= maxBufferSize)
       /\ PackedSize <= maxBufferSize => docBuffer >= PackedSize

\* An input of more than maxBufferSize floats has been packed into a buffer
\* of maxBufferSize floats, its last elements not stored.
C27_Overflowed ==
  /\ packing.outcome = "dropped"
  /\ docBuffer = maxBufferSize
  /\ PackedSize > maxBufferSize

\* C28: a maxsimBatchZeroAlloc call on an initialized wrapper returns the
\* scores maxsimBatch returns for the same query and documents, whatever
\* earlier calls left in the persistent buffer.
C28_ZeroAllocScoresAsMaxsimBatch ==
  (ret.op = "maxsimBatchZeroAlloc" /\ CalledInitialized)
    => /\ ret.kind = "scores"
       /\ ret.scores = Wasm_maxsimBatch(packing.query, DocumentsOf(docs, packing.n), FALSE)

\* What holds: the same with a query of at least one token.
C28_SameScoresForNonEmptyQuery ==
  (ret.op = "maxsimBatchZeroAlloc" /\ CalledInitialized /\ packing.query # << >>)
    => /\ ret.kind = "scores"
       /\ ret.scores = Wasm_maxsimBatch(packing.query, DocumentsOf(docs, packing.n), FALSE)

\* A call scored a shorter input than an earlier call left in the buffer:
\* floats of the earlier call lie past the part this call wrote.
C28_StaleDataInBuffer ==
  /\ ret.op = "maxsimBatchZeroAlloc"
  /\ ret.kind = "scores"
  /\ packing.query # << >>
  /\ packing.n > 0
  /\ Len(packing.content) >
       Len(packing.query) * 2 + Wasm_docSize(docs, packing.n, 2)


====
